---- MODULE Spec2Model ----
(***************************************************************************)
(* The markup normalization engine of the design-arena viewer              *)
(* (src/src/viewer/lib/primary-section.ts): extractPrimarySection and the  *)
(* four stages it runs.  A string is a sequence of one-character strings;  *)
(* every regular expression of the source is an operator that gives, for a *)
(* start index, the index just after the match the backtracking engine     *)
(* finds there (0: no match at that index).                                *)
(*                                                                         *)
(* After it: the viewer server (pairs and votes, the demo run and its      *)
(* events, variant keys), the demo page, and the benchmark runner.  Each   *)
(* has its own variables and its own specification; the variables of the   *)
(* others keep their initial values.                                       *)
(***************************************************************************)
EXTENDS Integers, Sequences, FiniteSets, TLC

\* ------------------------------------------------------------ characters

UpperCase == <<"A", "B", "C", "D", "E", "F", "G", "H", "I", "J", "K", "L", "M", "N", "O", "P", "Q", "R", "S", "T", "U", "V", "W", "X", "Y", "Z">>
LowerCase == <<"a", "b", "c", "d", "e", "f", "g", "h", "i", "j", "k", "l", "m", "n", "o", "p", "q", "r", "s", "t", "u", "v", "w", "x", "y", "z">>
DigitChars == <<"0", "1", "2", "3", "4", "5", "6", "7", "8", "9">>

UpperSet == {UpperCase[k] : k \in DOMAIN UpperCase}
LowerSet == {LowerCase[k] : k \in DOMAIN LowerCase}
DigitSet == {DigitChars[k] : k \in DOMAIN DigitChars}

\* the grave accent (U+0060), which a TLA+ string cannot hold
Backtick == "backtick"

LowerOf == [c \in UpperSet |-> LowerCase[CHOOSE k \in DOMAIN UpperCase : UpperCase[k] = c]]

\* the canonical form the i flag compares (ASCII letters)
ToLower(c) == IF c \in UpperSet THEN LowerOf[c] ELSE c

\* \s
IsSpace(c) == c \in {" ", "\t", "\n", "\r", "\f"}

\* [a-z] under the i flag, [a-zA-Z]
IsLetter(c) == c \in LowerSet \/ c \in UpperSet

\* [a-zA-Z_:]
IsNameStart(c) == IsLetter(c) \/ c \in {"_", ":"}

\* [a-zA-Z0-9_:.-]
IsNameChar(c) == IsNameStart(c) \/ c \in DigitSet \/ c \in {".", "-"}

\* ------------------------------------------------------- string helpers

Min(S) == CHOOSE x \in S : \A y \in S : x <= y
Max(S) == CHOOSE x \in S : \A y \in S : y <= x

\* const x = value; followed by the code Body that uses x: the value is
\* computed once, before the code that uses it
With(value, Body(_)) == CHOOSE r \in {Body(x) : x \in {value}} : TRUE

\* the character at index i; "" beyond either end
At(s, i) == IF i \in 1..Len(s) THEN s[i] ELSE ""

\* s.slice(a - 1, b): the characters a..b, empty when b < a
Slice(s, a, b) == IF b < a THEN <<>> ELSE SubSeq(s, a, b)

\* the literal lit stands at index i of s
StartsAt(s, i, lit) ==
  /\ i >= 1
  /\ i + Len(lit) - 1 <= Len(s)
  /\ \A k \in 1..Len(lit) : s[i + k - 1] = lit[k]

\* the same under the i flag (lit is written in lower case)
StartsAtCI(s, i, lit) ==
  /\ i >= 1
  /\ i + Len(lit) - 1 <= Len(s)
  /\ \A k \in 1..Len(lit) : ToLower(s[i + k - 1]) = lit[k]

\* the least index >= i where lit stands, 0 when there is none
IndexOf(s, i, lit) ==
  LET hits == {j \in i..Len(s) : StartsAt(s, j, lit)}
  IN IF hits = {} THEN 0 ELSE Min(hits)

IndexOfCI(s, i, lit) ==
  LET hits == {j \in i..Len(s) : StartsAtCI(s, j, lit)}
  IN IF hits = {} THEN 0 ELSE Min(hits)

\* a greedy \s* from index i: the index of the first character it leaves
SkipSpaces(s, i) == Min({j \in i..(Len(s) + 1) : ~IsSpace(At(s, j))})

\* a greedy [a-z]* (i flag) from index i
SkipLetters(s, i) == Min({j \in i..(Len(s) + 1) : ~IsLetter(At(s, j))})

\* a greedy [a-zA-Z0-9_:.-]* from index i
SkipNameChars(s, i) == Min({j \in i..(Len(s) + 1) : ~IsNameChar(At(s, j))})

\* open [^close]* close at index p: the index after the closing character
Delimited(s, p, open, close) ==
  IF At(s, p) = open
  THEN LET k == IndexOf(s, p + 1, <<close>>)
       IN IF k = 0 THEN 0 ELSE k + 1
  ELSE 0

\* String.prototype.replace with a g-flag pattern: from lastIndex i - 1 the
\* leftmost match is taken, the text before it is kept, its replacement is
\* emitted and the scan goes on after it.  ends[i] is the index after the
\* match that starts at i (0: none), repls[i] its replacement.
RECURSIVE Splice(_, _, _, _)
Splice(s, ends, repls, i) ==
  LET starts == {j \in i..Len(s) : ends[j] # 0}
  IN IF starts = {} THEN Slice(s, i, Len(s))
     ELSE Slice(s, i, Min(starts) - 1) \o repls[Min(starts)]
            \o Splice(s, ends, repls, ends[Min(starts)])

ReplaceAll(s, ends, repls) ==
  IF \A i \in 1..Len(s) : ends[i] = 0 THEN s ELSE Splice(s, ends, repls, 1)

\* s.replace(pattern, "")
Remove(s, ends) == ReplaceAll(s, ends, [i \in 1..Len(s) |-> <<>>])

\* s.replace(pattern, text) for a fixed replacement text
ReplaceWith(s, ends, text) == ReplaceAll(s, ends, [i \in 1..Len(s) |-> text])

\* String.prototype.trim
Trim(s) ==
  LET keep == {j \in 1..Len(s) : ~IsSpace(s[j])}
  IN IF keep = {} THEN <<>> ELSE SubSeq(s, Min(keep), Max(keep))

\* ------------------------------------------------------ sanitizeMarkup

\* /<script[\s\S]*?<\/script>/gi at index i
ScriptBlockEnd(s, i) ==
  IF StartsAtCI(s, i, <<"<", "s", "c", "r", "i", "p", "t">>)
  THEN LET k == IndexOfCI(s, i + 7, <<"<", "/", "s", "c", "r", "i", "p", "t", ">">>)
       IN IF k = 0 THEN 0 ELSE k + 9
  ELSE 0

\* /\son[a-z]+\s*=\s*<open>[^<close>]*<close>/gi at index i
EventAttrEnd(s, i, open, close) ==
  IF IsSpace(At(s, i)) /\ StartsAtCI(s, i + 1, <<"o", "n">>) /\ IsLetter(At(s, i + 3))
  THEN LET eq == SkipSpaces(s, SkipLetters(s, i + 3))
       IN IF At(s, eq) = "="
          THEN Delimited(s, SkipSpaces(s, eq + 1), open, close)
          ELSE 0
  ELSE 0

\* /style=<open>[^<close>]*<close>/gi at index i
StyleAttrEnd(s, i, open, close) ==
  IF StartsAtCI(s, i, <<"s", "t", "y", "l", "e", "=">>) THEN Delimited(s, i + 6, open, close) ELSE 0

RemoveScriptBlocks(s) == Remove(s, [i \in 1..Len(s) |-> ScriptBlockEnd(s, i)])

RemoveEventAttrs(s, open, close) ==
  Remove(s, [i \in 1..Len(s) |-> EventAttrEnd(s, i, open, close)])

RemoveStyleAttrs(s, open, close) ==
  Remove(s, [i \in 1..Len(s) |-> StyleAttrEnd(s, i, open, close)])

sanitizeMarkup(source) ==
  With(RemoveScriptBlocks(source), LAMBDA noScript :
  With(RemoveEventAttrs(noScript, "\"", "\""), LAMBDA noOnDq :
  With(RemoveEventAttrs(noOnDq, "'", "'"), LAMBDA noOnSq :
  With(RemoveEventAttrs(noOnSq, "{", "}"), LAMBDA noOnBr :
  With(RemoveStyleAttrs(noOnBr, "{", "}"), LAMBDA noStyleBr :
  With(RemoveStyleAttrs(noStyleBr, "\"", "\""), LAMBDA noStyleDq :
  RemoveStyleAttrs(noStyleDq, "'", "'")))))))

\* --------------------------------------------------- sequence helpers

\* the elements of a finite set of integers in increasing order
RECURSIVE Ascending(_)
Ascending(S) == IF S = {} THEN <<>> ELSE <<Min(S)>> \o Ascending(S \ {Min(S)})

\* String.prototype.split on a run of separator characters, empty pieces
\* dropped (.filter(Boolean)): the maximal runs of non-separator characters
SplitRuns(s, seps) ==
  LET starts == {i \in 1..Len(s) : s[i] \notin seps /\ (i = 1 \/ s[i - 1] \in seps)}
      stop(i) == Min({j \in i..(Len(s) + 1) : j = Len(s) + 1 \/ At(s, j) \in seps})
      order == Ascending(starts)
  IN [n \in 1..Len(order) |-> SubSeq(s, order[n], stop(order[n]) - 1)]

\* Array.prototype.join
RECURSIVE Join(_, _)
Join(items, sep) ==
  IF items = <<>> THEN <<>>
  ELSE IF Len(items) = 1 THEN items[1]
  ELSE items[1] \o sep \o Join(Tail(items), sep)

\* s.replace(/[chars]/g, "")
RemoveChars(s, chars) == SelectSeq(s, LAMBDA c : c \notin chars)

\* s.replace(/c/g, rep) for a single character c
MapChar(s, c, rep) ==
  ReplaceWith(s, [i \in 1..Len(s) |-> IF s[i] = c THEN i + 1 ELSE 0], rep)

\* the result of RegExp.prototype.exec that found nothing
Null == <<"null">>

\* exec of a pattern without the g flag: the leftmost match, or Null
FirstMatch(s, ends) ==
  LET starts == {i \in 1..Len(s) : ends[i] # 0}
  IN IF starts = {} THEN Null
     ELSE SubSeq(s, Min(starts), ends[Min(starts)] - 1)

\* --------------------------------------------------- stripJsxArtifacts

\* /\{\s*\/\*[\s\S]*?\*\/\s*\}/g at index i
JsxCommentEnd(s, i) ==
  IF At(s, i) = "{" /\ StartsAt(s, SkipSpaces(s, i + 1), <<"/", "*">>)
  THEN LET p == SkipSpaces(s, i + 1)
           qs == {q \in (p + 2)..Len(s) :
                    StartsAt(s, q, <<"*", "/">>) /\ At(s, SkipSpaces(s, q + 2)) = "}"}
       IN IF qs = {} THEN 0 ELSE SkipSpaces(s, Min(qs) + 2) + 1
  ELSE 0

\* /\{\s*["'<backtick>]\s*\}/g at index i
EmptyQuoteEnd(s, i) ==
  IF At(s, i) = "{" /\ At(s, SkipSpaces(s, i + 1)) \in {"\"", "'", Backtick}
  THEN LET e == SkipSpaces(s, SkipSpaces(s, i + 1) + 1)
       IN IF At(s, e) = "}" THEN e + 1 ELSE 0
  ELSE 0

\* /\{\s*q([^q]+)q\s*\}/g at index i, q one of the three quote characters
QuotedExprEnd(s, i, q) ==
  IF At(s, i) = "{" /\ At(s, SkipSpaces(s, i + 1)) = q
  THEN LET p == SkipSpaces(s, i + 1)
           k == IndexOf(s, p + 1, <<q>>)
       IN IF k > p + 1 /\ At(s, SkipSpaces(s, k + 1)) = "}"
          THEN SkipSpaces(s, k + 1) + 1
          ELSE 0
  ELSE 0

\* the group ([^q]+) of the match of QuotedExprEnd at index i
QuotedExprText(s, i, q) ==
  LET p == SkipSpaces(s, i + 1)
  IN SubSeq(s, p + 1, IndexOf(s, p + 1, <<q>>) - 1)

LiteralEnd(s, i, lit) == IF StartsAt(s, i, lit) THEN i + Len(lit) ELSE 0

\* s.replace(/lit/g, text) for a literal pattern
ReplaceLiteral(s, lit, text) ==
  ReplaceWith(s, [i \in 1..Len(s) |-> LiteralEnd(s, i, lit)], text)

\* .replace(/\{\s*q([^q]+)q\s*\}/g, (_, text) => text)
InlineQuotedExpr(s, q) ==
  ReplaceAll(s, [i \in 1..Len(s) |-> QuotedExprEnd(s, i, q)],
             [i \in 1..Len(s) |->
                IF QuotedExprEnd(s, i, q) = 0 THEN <<>> ELSE QuotedExprText(s, i, q)])

stripJsxArtifacts(source) ==
  With(Remove(source, [i \in 1..Len(source) |-> JsxCommentEnd(source, i)]), LAMBDA noComment :
  With(ReplaceWith(noComment, [i \in 1..Len(noComment) |-> EmptyQuoteEnd(noComment, i)], <<" ">>),
       LAMBDA noEmpty :
  With(InlineQuotedExpr(noEmpty, Backtick), LAMBDA tpl :
  With(InlineQuotedExpr(tpl, "\""), LAMBDA dq :
  With(InlineQuotedExpr(dq, "'"), LAMBDA sq :
  With(ReplaceLiteral(sq, <<"<", ">">>, <<"<", "d", "i", "v", " ", "c", "l", "a", "s", "s", "=", "\"", "a", "r", "e", "n", "a", "-", "f", "r", "a", "g", "m", "e", "n", "t", "\"", ">">>), LAMBDA opened :
  ReplaceLiteral(opened, <<"<", "/", ">">>, <<"<", "/", "d", "i", "v", ">">>)))))))

\* ------------------------------------------------- convertClassBindings

\* /class=\{\s*q([^q]+)q\s*\}/g at index i
ClassLiteralEnd(s, i, q) ==
  IF StartsAt(s, i, <<"c", "l", "a", "s", "s", "=">>) THEN QuotedExprEnd(s, i + 6, q) ELSE 0

\* /class=\{\s*([^}]+)\s*\}/g at index i
ClassExprEnd(s, i) ==
  IF StartsAt(s, i, <<"c", "l", "a", "s", "s", "=", "{">>)
  THEN LET k == IndexOf(s, i + 7, <<"}">>)
       IN IF k > i + 7 THEN k + 1 ELSE 0
  ELSE 0

\* the group ([^}]+) of the match of ClassExprEnd at index i that ends before
\* e: the greedy \s* leaves it at least one character
ClassExprText(s, i, e) ==
  SubSeq(s, Min({SkipSpaces(s, i + 7), e - 2}), e - 2)

\* expr.split(/[\s+|]+/).map(strip quotes, trim).filter(Boolean).join(" ")
FlattenClassExpr(expr) ==
  With(SplitRuns(expr, {" ", "\t", "\n", "\r", "\f", "+", "|"}), LAMBDA tokens :
  With([n \in 1..Len(tokens) |-> Trim(RemoveChars(tokens[n], {"\"", "'", Backtick}))],
       LAMBDA bare :
  Join(SelectSeq(bare, LAMBDA t : t # <<>>), <<" ">>)))

\* .replace(/class=\{\s*q([^q]+)q\s*\}/g, (_, classes) => "class=" + quoted classes)
QuoteClassLiteral(s, q) ==
  ReplaceAll(s, [i \in 1..Len(s) |-> ClassLiteralEnd(s, i, q)],
             [i \in 1..Len(s) |->
                IF ClassLiteralEnd(s, i, q) = 0 THEN <<>>
                ELSE <<"c", "l", "a", "s", "s", "=", "\"">> \o QuotedExprText(s, i + 6, q) \o <<"\"">>])

FlattenClassExprs(s) ==
  ReplaceAll(s, [i \in 1..Len(s) |-> ClassExprEnd(s, i)],
             [i \in 1..Len(s) |->
                IF ClassExprEnd(s, i) = 0 THEN <<>>
                ELSE With(ClassExprText(s, i, ClassExprEnd(s, i)), LAMBDA expr :
                     <<"c", "l", "a", "s", "s", "=", "\"">> \o FlattenClassExpr(expr) \o <<"\"">>)])

convertClassBindings(source) ==
  With(ReplaceLiteral(source, <<"c", "l", "a", "s", "s", "N", "a", "m", "e", "=">>, <<"c", "l", "a", "s", "s", "=">>), LAMBDA renamed :
  With(QuoteClassLiteral(renamed, Backtick), LAMBDA tpl :
  With(QuoteClassLiteral(tpl, "\""), LAMBDA dq :
  With(QuoteClassLiteral(dq, "'"), LAMBDA sq :
  FlattenClassExprs(sq)))))

\* ------------------------------------------------------ parseAttributes

\* /([a-zA-Z_:][a-zA-Z0-9_:.-]*)\s*=\s*({[^}]*}|"[^"]*"|'[^']*')/g at index
\* i: the three alternatives start with different characters, so at most one
\* of them matches
AttrValueEnd(s, v) ==
  IF At(s, v) = "{" THEN Delimited(s, v, "{", "}")
  ELSE IF At(s, v) = "\"" THEN Delimited(s, v, "\"", "\"")
  ELSE Delimited(s, v, "'", "'")

AttrValueStart(s, i) == SkipSpaces(s, SkipSpaces(s, SkipNameChars(s, i + 1)) + 1)

AttrEnd(s, i) ==
  IF IsNameStart(At(s, i)) /\ At(s, SkipSpaces(s, SkipNameChars(s, i + 1))) = "="
  THEN AttrValueEnd(s, AttrValueStart(s, i))
  ELSE 0

unwrapAttributeValue(value) ==
  With(Trim(value), LAMBDA trimmed :
  With(At(trimmed, 1), LAMBDA first :
  With(At(trimmed, Len(trimmed)), LAMBDA last :
  IF trimmed = <<>> THEN <<>>
  ELSE IF (first = "{" /\ last = "}") \/ (first = "(" /\ last = ")")
    THEN Trim(Slice(trimmed, 2, Len(trimmed) - 1))
  ELSE IF (first = "\"" /\ last = "\"") \/ (first = "'" /\ last = "'")
    THEN Slice(trimmed, 2, Len(trimmed) - 1)
  ELSE trimmed)))

\* A Record<string, string> is the sequence of its own [key, value] entries in
\* Object.entries order: the order in which the keys were first assigned.
HasKey(attrs, key) == \E n \in 1..Len(attrs) : attrs[n].key = key

\* attrs[key]: the empty string stands for undefined, which is as falsy
Get(attrs, key) ==
  IF HasKey(attrs, key)
  THEN attrs[CHOOSE n \in 1..Len(attrs) : attrs[n].key = key].value
  ELSE <<>>

\* attrs[key] = value: an existing key keeps its place and takes the new
\* value; assigning a string to __proto__ sets nothing
SetAttr(attrs, key, value) ==
  IF key = <<"_", "_", "p", "r", "o", "t", "o", "_", "_">> THEN attrs
  ELSE IF HasKey(attrs, key)
    THEN [n \in 1..Len(attrs) |->
            IF attrs[n].key = key THEN [key |-> key, value |-> value] ELSE attrs[n]]
  ELSE Append(attrs, [key |-> key, value |-> value])

\* delete attrs[key]
Delete(attrs, key) == SelectSeq(attrs, LAMBDA a : a.key # key)

\* the while ((match = regex.exec(source))) loop, from lastIndex pos - 1
RECURSIVE ParseFrom(_, _, _)
ParseFrom(s, pos, attrs) ==
  With({i \in pos..Len(s) : AttrEnd(s, i) # 0}, LAMBDA starts :
  IF starts = {} THEN attrs
  ELSE With(Min(starts), LAMBDA i :
       With(AttrEnd(s, i), LAMBDA end :
       With(SubSeq(s, i, SkipNameChars(s, i + 1) - 1), LAMBDA key :
       With(SubSeq(s, AttrValueStart(s, i), end - 1), LAMBDA raw :
       With(unwrapAttributeValue(raw), LAMBDA value :
       With(SetAttr(attrs, key, value), LAMBDA assigned :
       ParseFrom(s, end, assigned))))))))

parseAttributes(source) == ParseFrom(source, 1, <<>>)

\* --------------------------------------------------- buildTagAttributes

\* splitClasses without the split: the value is taken as one class
splitClassesWhole(value) == IF value = <<>> THEN <<>> ELSE <<value>>

splitClasses(value) ==
  IF value = <<>> THEN <<>>
  ELSE SplitRuns([n \in 1..Len(value) |->
                    IF value[n] \in {Backtick, "\"", "'", "{", "}"} THEN " " ELSE value[n]],
                 {" ", "\t", "\n", "\r", "\f"})

\* escapeAttribute without the four replacements
escapeAttributeRaw(value) == value

escapeAttribute(value) ==
  With(MapChar(value, "&", <<"&", "a", "m", "p", ";">>), LAMBDA amp :
  With(MapChar(amp, "\"", <<"&", "q", "u", "o", "t", ";">>), LAMBDA quot :
  With(MapChar(quot, "<", <<"&", "l", "t", ";">>), LAMBDA lt :
  MapChar(lt, ">", <<"&", "g", "t", ";">>))))

\* the stripAttrs loop left out
DeleteNone(attrs, keys) == attrs

RECURSIVE DeleteAll(_, _)
DeleteAll(attrs, keys) ==
  IF keys = <<>> THEN attrs
  ELSE With(Delete(attrs, Head(keys)), LAMBDA deleted : DeleteAll(deleted, Tail(keys)))

\* the keepOnly filter left out
KeepEvery(attrs, keepOnly) == attrs

\* if (keepOnly && keepOnly.length > 0) delete every key it does not include
KeepOnly(attrs, keepOnly) ==
  IF Len(keepOnly) > 0
  THEN SelectSeq(attrs, LAMBDA a : \E n \in 1..Len(keepOnly) : keepOnly[n] = a.key)
  ELSE attrs

buildTagAttributes(attrs, baseClass, stripAttrs, keepOnly) ==
  With(parseAttributes(attrs), LAMBDA parsed0 :
  With(DeleteAll(parsed0, stripAttrs), LAMBDA stripped :
  With(KeepOnly(stripped, keepOnly), LAMBDA parsed :
  With(Get(parsed, <<"c", "l", "a", "s", "s", "N", "a", "m", "e">>), LAMBDA className :
  With(IF className # <<>> THEN Delete(parsed, <<"c", "l", "a", "s", "s", "N", "a", "m", "e">>) ELSE parsed, LAMBDA parsed1 :
  With(Get(parsed1, <<"c", "l", "a", "s", "s">>), LAMBDA class :
  With(IF class # <<>> THEN Delete(parsed1, <<"c", "l", "a", "s", "s">>) ELSE parsed1, LAMBDA parsed2 :
  With(<<baseClass>> \o splitClasses(className) \o splitClasses(class), LAMBDA classes :
  With(Join([n \in 1..Len(parsed2) |->
               parsed2[n].key \o <<"=", "\"">> \o escapeAttribute(parsed2[n].value) \o <<"\"">>],
            <<" ">>),
       LAMBDA attrPairs :
  <<" ", "c", "l", "a", "s", "s", "=", "\"">> \o Join(SelectSeq(classes, LAMBDA c : c # <<>>), <<" ">>) \o <<"\"">>
    \o (IF attrPairs # <<>> THEN <<" ">> \o attrPairs ELSE <<>>))))))))))

\* ---------------------------------------------- convertCustomComponents

\* new RegExp("<" + componentName + "([^>]*)>", "g") at index i
OpeningTagEnd(s, i, componentName) ==
  IF At(s, i) = "<" /\ StartsAt(s, i + 1, componentName)
  THEN LET k == IndexOf(s, i + 1 + Len(componentName), <<">">>)
       IN IF k = 0 THEN 0 ELSE k + 1
  ELSE 0

\* new RegExp("<" + componentName + "([^>]*)/>", "g") at index i: [^>]* runs up to
\* the next ">", so "/>" can only be the two characters that end there
SelfClosingEnd(s, i, componentName) ==
  IF At(s, i) = "<" /\ StartsAt(s, i + 1, componentName)
  THEN LET k == IndexOf(s, i + 1 + Len(componentName), <<">">>)
       IN IF k > i + 1 + Len(componentName) /\ s[k - 1] = "/" THEN k + 1 ELSE 0
  ELSE 0

replaceComponent(source, componentName, tagName, baseClass, stripAttrs) ==
  With([i \in 1..Len(source) |-> OpeningTagEnd(source, i, componentName)], LAMBDA ends :
  With(ReplaceAll(source, ends,
                  [i \in 1..Len(source) |->
                     IF ends[i] = 0 THEN <<>>
                     ELSE With(Slice(source, i + 1 + Len(componentName), ends[i] - 2),
                               LAMBDA attrs :
                          <<"<">> \o tagName
                            \o buildTagAttributes(attrs, baseClass, stripAttrs, <<>>)
                            \o <<">">>)]),
       LAMBDA opened :
  ReplaceLiteral(opened, <<"<", "/">> \o componentName \o <<">">>, <<"<", "/">> \o tagName \o <<">">>)))

replaceSelfClosing(source, componentName, tagName, baseClass, keepAttrs) ==
  With([i \in 1..Len(source) |-> SelfClosingEnd(source, i, componentName)], LAMBDA ends :
  ReplaceAll(source, ends,
             [i \in 1..Len(source) |->
                IF ends[i] = 0 THEN <<>>
                ELSE With(Slice(source, i + 1 + Len(componentName), ends[i] - 3),
                          LAMBDA attrs :
                     <<"<">> \o tagName
                       \o buildTagAttributes(attrs, baseClass, <<>>, keepAttrs)
                       \o <<">", "<", "/">> \o tagName \o <<">">>)]))

\* the replaceComponent calls of convertCustomComponents, in their order
ComponentRules == <<
  <<<<"B", "u", "t", "t", "o", "n">>, <<"b", "u", "t", "t", "o", "n">>, <<"a", "r", "e", "n", "a", "-", "b", "t", "n">>, <<<<"v", "a", "r", "i", "a", "n", "t">>, <<"s", "i", "z", "e">>, <<"a", "s", "C", "h", "i", "l", "d">>>> >>,
  <<<<"B", "a", "d", "g", "e">>, <<"s", "p", "a", "n">>, <<"a", "r", "e", "n", "a", "-", "b", "a", "d", "g", "e">>, <<>> >>,
  <<<<"C", "a", "r", "d">>, <<"d", "i", "v">>, <<"a", "r", "e", "n", "a", "-", "c", "a", "r", "d">>, <<>> >>,
  <<<<"C", "a", "r", "d", "H", "e", "a", "d", "e", "r">>, <<"d", "i", "v">>, <<"a", "r", "e", "n", "a", "-", "c", "a", "r", "d", "_", "_", "h", "e", "a", "d", "e", "r">>, <<>> >>,
  <<<<"C", "a", "r", "d", "C", "o", "n", "t", "e", "n", "t">>, <<"d", "i", "v">>, <<"a", "r", "e", "n", "a", "-", "c", "a", "r", "d", "_", "_", "c", "o", "n", "t", "e", "n", "t">>, <<>> >>,
  <<<<"C", "a", "r", "d", "T", "i", "t", "l", "e">>, <<"h", "3">>, <<"a", "r", "e", "n", "a", "-", "c", "a", "r", "d", "_", "_", "t", "i", "t", "l", "e">>, <<>> >>,
  <<<<"C", "a", "r", "d", "D", "e", "s", "c", "r", "i", "p", "t", "i", "o", "n">>, <<"p">>, <<"a", "r", "e", "n", "a", "-", "c", "a", "r", "d", "_", "_", "d", "e", "s", "c", "r", "i", "p", "t", "i", "o", "n">>, <<>> >>,
  <<<<"C", "a", "r", "d", "F", "o", "o", "t", "e", "r">>, <<"d", "i", "v">>, <<"a", "r", "e", "n", "a", "-", "c", "a", "r", "d", "_", "_", "f", "o", "o", "t", "e", "r">>, <<>> >>,
  <<<<"T", "a", "b", "s">>, <<"d", "i", "v">>, <<"a", "r", "e", "n", "a", "-", "t", "a", "b", "s">>, <<>> >>,
  <<<<"T", "a", "b", "s", "L", "i", "s", "t">>, <<"d", "i", "v">>, <<"a", "r", "e", "n", "a", "-", "t", "a", "b", "s", "_", "_", "l", "i", "s", "t">>, <<>> >>,
  <<<<"T", "a", "b", "s", "T", "r", "i", "g", "g", "e", "r">>, <<"b", "u", "t", "t", "o", "n">>, <<"a", "r", "e", "n", "a", "-", "t", "a", "b", "s", "_", "_", "t", "r", "i", "g", "g", "e", "r">>, <<<<"v", "a", "l", "u", "e">>>> >>,
  <<<<"T", "a", "b", "s", "C", "o", "n", "t", "e", "n", "t">>, <<"d", "i", "v">>, <<"a", "r", "e", "n", "a", "-", "t", "a", "b", "s", "_", "_", "c", "o", "n", "t", "e", "n", "t">>, <<<<"v", "a", "l", "u", "e">>>> >>,
  <<<<"L", "i", "n", "k">>, <<"a">>, <<"a", "r", "e", "n", "a", "-", "l", "i", "n", "k">>, <<<<"p", "r", "e", "f", "e", "t", "c", "h">>, <<"l", "e", "g", "a", "c", "y", "B", "e", "h", "a", "v", "i", "o", "r">>>> >>,
  <<<<"I", "n", "p", "u", "t">>, <<"i", "n", "p", "u", "t">>, <<"a", "r", "e", "n", "a", "-", "i", "n", "p", "u", "t">>, <<<<"t", "y", "p", "e">>>> >>,
  <<<<"L", "a", "b", "e", "l">>, <<"l", "a", "b", "e", "l">>, <<"a", "r", "e", "n", "a", "-", "l", "a", "b", "e", "l">>, <<>> >>,
  <<<<"T", "e", "x", "t", "a", "r", "e", "a">>, <<"t", "e", "x", "t", "a", "r", "e", "a">>, <<"a", "r", "e", "n", "a", "-", "t", "e", "x", "t", "a", "r", "e", "a">>, <<>> >>,
  <<<<"A", "v", "a", "t", "a", "r">>, <<"d", "i", "v">>, <<"a", "r", "e", "n", "a", "-", "a", "v", "a", "t", "a", "r">>, <<>> >>,
  <<<<"A", "v", "a", "t", "a", "r", "I", "m", "a", "g", "e">>, <<"d", "i", "v">>, <<"a", "r", "e", "n", "a", "-", "a", "v", "a", "t", "a", "r", "_", "_", "i", "m", "a", "g", "e">>, <<<<"s", "r", "c">>, <<"a", "l", "t">>>> >>,
  <<<<"A", "v", "a", "t", "a", "r", "F", "a", "l", "l", "b", "a", "c", "k">>, <<"s", "p", "a", "n">>, <<"a", "r", "e", "n", "a", "-", "a", "v", "a", "t", "a", "r", "_", "_", "f", "a", "l", "l", "b", "a", "c", "k">>, <<>> >>
>>

\* output = replaceComponent(output, ...) for the rules n, n + 1, ...
RECURSIVE ApplyRules(_, _)
ApplyRules(output, n) ==
  IF n > Len(ComponentRules) THEN output
  ELSE With(ComponentRules[n], LAMBDA rule :
       With(replaceComponent(output, rule[1], rule[2], rule[3], rule[4]), LAMBDA next :
       ApplyRules(next, n + 1)))

convertCustomComponents(source) ==
  With(ApplyRules(source, 1), LAMBDA output :
  replaceSelfClosing(output, <<"I", "m", "a", "g", "e">>, <<"d", "i", "v">>, <<"a", "r", "e", "n", "a", "-", "i", "m", "a", "g", "e">>, <<<<"s", "r", "c">>, <<"a", "l", "t">>, <<"w", "i", "d", "t", "h">>, <<"h", "e", "i", "g", "h", "t">>>>))

\* the text after the first n replaceComponent calls of convertCustomComponents
RECURSIVE ApplyFirst(_, _)
ApplyFirst(source, n) ==
  IF n = 0 THEN source
  ELSE With(ApplyFirst(source, n - 1), LAMBDA output :
       With(ComponentRules[n], LAMBDA rule :
       replaceComponent(output, rule[1], rule[2], rule[3], rule[4])))

\* the start indices of the matches a g-flag replace takes: the leftmost
\* match from index i on, then the leftmost one after its end, and so on
RECURSIVE TakenFrom(_, _)
TakenFrom(ends, i) ==
  With({j \in DOMAIN ends : j >= i /\ ends[j] # 0}, LAMBDA starts :
  IF starts = {} THEN {}
  ELSE With(Min(starts), LAMBDA j : {j} \cup TakenFrom(ends, ends[j])))

\* the opening tags that call n of replaceComponent emits: the values its
\* replacement callback returns, one for each match of openingTagRegex
EmittedBy(source, n) ==
  With(ApplyFirst(source, n - 1), LAMBDA output :
  With(ComponentRules[n], LAMBDA rule :
  With([i \in 1..Len(output) |-> OpeningTagEnd(output, i, rule[1])], LAMBDA ends :
  {<<"<">> \o rule[2]
     \o buildTagAttributes(Slice(output, i + 1 + Len(rule[1]), ends[i] - 2),
                           rule[3], rule[4], <<>>)
     \o <<">">> : i \in TakenFrom(ends, 1)})))

\* ------------------------------------------------ extractPrimarySection

\* HERO_SECTION_REGEX = /<section[^>]*id=(["'])hero\1[\s\S]*?<\/section>/i
\* at index i: the greedy [^>]* gives back characters until id=, a quote, hero
\* and the same quote follow it and a </section> comes later
HeroIdAt(s, j) ==
  /\ StartsAtCI(s, j, <<"i", "d", "=">>)
  /\ At(s, j + 3) \in {"\"", "'"}
  /\ StartsAtCI(s, j + 4, <<"h", "e", "r", "o">>)
  /\ At(s, j + 8) = At(s, j + 3)

HeroSectionEnd(s, i) ==
  IF StartsAtCI(s, i, <<"<", "s", "e", "c", "t", "i", "o", "n">>)
  THEN LET stop == Min({j \in (i + 8)..(Len(s) + 1) : j = Len(s) + 1 \/ At(s, j) = ">"})
           js == {j \in (i + 8)..stop :
                    HeroIdAt(s, j) /\ IndexOfCI(s, j + 9, <<"<", "/", "s", "e", "c", "t", "i", "o", "n", ">">>) # 0}
       IN IF js = {} THEN 0 ELSE IndexOfCI(s, Max(js) + 9, <<"<", "/", "s", "e", "c", "t", "i", "o", "n", ">">>) + 10
  ELSE 0

\* MAIN_SECTION_REGEX = /<main[\s\S]*?<\/main>/i at index i
MainSectionEnd(s, i) ==
  IF StartsAtCI(s, i, <<"<", "m", "a", "i", "n">>)
  THEN LET k == IndexOfCI(s, i + 5, <<"<", "/", "m", "a", "i", "n", ">">>)
       IN IF k = 0 THEN 0 ELSE k + 7
  ELSE 0

\* extractFallbackSection without the trim
extractFallbackUntrimmed(source) ==
  With(FirstMatch(source, [i \in 1..Len(source) |-> MainSectionEnd(source, i)]),
       LAMBDA mainMatch :
  IF mainMatch # Null /\ mainMatch # <<>> THEN mainMatch
  ELSE IF Trim(source) # <<>> THEN source
  ELSE Null)

extractFallbackSection(source) ==
  With(FirstMatch(source, [i \in 1..Len(source) |-> MainSectionEnd(source, i)]),
       LAMBDA mainMatch :
  IF mainMatch # Null /\ mainMatch # <<>> THEN mainMatch
  ELSE With(Trim(source), LAMBDA trimmed : IF trimmed # <<>> THEN trimmed ELSE Null))

normalizeSection(section) ==
  IF section = <<>> THEN <<>>
  ELSE With(stripJsxArtifacts(section), LAMBDA stripped :
       With(convertClassBindings(stripped), LAMBDA bound :
       With(convertCustomComponents(bound), LAMBDA converted :
       sanitizeMarkup(converted))))

\* the selection with <main> tried before the hero section
SelectSectionMainFirst(responseText) ==
  With(FirstMatch(responseText,
                  [i \in 1..Len(responseText) |-> MainSectionEnd(responseText, i)]),
       LAMBDA mainMatch :
  With(FirstMatch(responseText,
                  [i \in 1..Len(responseText) |-> HeroSectionEnd(responseText, i)]),
       LAMBDA heroMatch :
  IF mainMatch # Null /\ mainMatch # <<>> THEN mainMatch
  ELSE IF heroMatch # Null THEN heroMatch
  ELSE IF Trim(responseText) # <<>> THEN Trim(responseText)
  ELSE responseText))

SelectSection(responseText) ==
  With(FirstMatch(responseText,
                  [i \in 1..Len(responseText) |-> HeroSectionEnd(responseText, i)]),
       LAMBDA heroMatch :
  IF heroMatch # Null THEN heroMatch
  ELSE With(extractFallbackSection(responseText), LAMBDA fallback :
       IF fallback # Null THEN fallback ELSE responseText))

\* extractPrimarySection returning the normalized text in both fields
extractPrimarySectionBoth(responseText) ==
  With(SelectSection(responseText), LAMBDA rawSection :
  With(normalizeSection(rawSection), LAMBDA normalized :
  [sanitizedHtml |-> normalized, rawSection |-> normalized]))

extractPrimarySection(responseText) ==
  With(SelectSection(responseText), LAMBDA rawSection :
  With(normalizeSection(rawSection), LAMBDA normalized :
  [sanitizedHtml |-> normalized, rawSection |-> rawSection]))

\* ------------------------------------------- the module-level patterns

\* a pattern that has the g flag
GlobalFlag == TRUE

\* HERO_SECTION_REGEX and MAIN_SECTION_REGEX are created once, when the
\* module is loaded, and every call uses the same two objects.  Their flags
\* are "i": neither has the g flag.
HeroSectionGlobal == FALSE

MainSectionGlobal == FALSE

\* RegExp.prototype.exec on a pattern object whose lastIndex property is
\* lastIdx: with the g flag the search starts there and the property is set
\* to the end of the match (0 when there is none); without it the search
\* starts at 0 and the property is left alone
Exec(s, ends, global, lastIdx) ==
  With(IF global THEN lastIdx ELSE 0, LAMBDA from :
  With({i \in (from + 1)..Len(s) : ends[i] # 0}, LAMBDA starts :
  IF starts = {}
  THEN [match |-> Null, lastIndex |-> IF global THEN 0 ELSE lastIdx]
  ELSE [match |-> SubSeq(s, Min(starts), ends[Min(starts)] - 1),
        lastIndex |-> IF global THEN ends[Min(starts)] - 1 ELSE lastIdx]))

\* extractPrimarySection called while the lastIndex properties of the two
\* patterns are idx.hero and idx.main: its result and the properties after it
extractPrimarySectionAt(responseText, idx) ==
  With(Exec(responseText,
            [i \in 1..Len(responseText) |-> HeroSectionEnd(responseText, i)],
            HeroSectionGlobal, idx.hero),
       LAMBDA hero :
  IF hero.match # Null
  THEN [result |-> [sanitizedHtml |-> normalizeSection(hero.match), rawSection |-> hero.match],
        lastIndex |-> [hero |-> hero.lastIndex, main |-> idx.main]]
  ELSE With(Exec(responseText,
                 [i \in 1..Len(responseText) |-> MainSectionEnd(responseText, i)],
                 MainSectionGlobal, idx.main),
            LAMBDA main :
       With(IF main.match # Null /\ main.match # <<>> THEN main.match
            ELSE IF Trim(responseText) # <<>> THEN Trim(responseText)
            ELSE responseText,
            LAMBDA rawSection :
       [result |-> [sanitizedHtml |-> normalizeSection(rawSection), rawSection |-> rawSection],
        lastIndex |-> [hero |-> hero.lastIndex, main |-> main.lastIndex]])))

\* -------------------------------------------------------- the responses

\* A response text is a concatenation of pieces of markup.  Each corpus is
\* the set of pieces one family of responses is assembled from; the pieces
\* are cut so that a tag or an attribute can also arise across a seam.
\* <script>   </script>   <scr   ipt>   <SCRIPT src="u"></SCRIPT>   x
ScriptPieces == <<
  <<"<", "s", "c", "r", "i", "p", "t", ">">>, <<"<", "/", "s", "c", "r", "i", "p", "t", ">">>, <<"<", "s", "c", "r">>, <<"i", "p", "t", ">">>, <<"<", "S", "C", "R", "I", "P", "T", " ", "s", "r", "c", "=", "\"", "u", "\"", ">", "<", "/", "S", "C", "R", "I", "P", "T", ">">>, <<"x">>
>>

\* <a href="u"   (a space)   onclick="x"   onLoad='y'   onerror={z}   >
EventPieces == <<
  <<"<", "a", " ", "h", "r", "e", "f", "=", "\"", "u", "\"">>, <<" ">>, <<"o", "n", "c", "l", "i", "c", "k", "=", "\"", "x", "\"">>, <<"o", "n", "L", "o", "a", "d", "=", "'", "y", "'">>, <<"o", "n", "e", "r", "r", "o", "r", "=", "{", "z", "}">>, <<">">>
>>

\* <p (with a space)   style="a"   style='b'   style={c}   sty   le="d"   >
StylePieces == <<
  <<"<", "p", " ">>, <<"s", "t", "y", "l", "e", "=", "\"", "a", "\"">>, <<"s", "t", "y", "l", "e", "=", "'", "b", "'">>, <<"s", "t", "y", "l", "e", "=", "{", "c", "}">>, <<"s", "t", "y">>, <<"l", "e", "=", "\"", "d", "\"">>, <<">">>
>>

\* (a space)   B   <main>   </main>   <section id="hero">
\*   <SECTION class="c" ID='hero'>   </section>
SectionPieces == <<
  <<" ">>, <<"B">>, <<"<", "m", "a", "i", "n", ">">>, <<"<", "/", "m", "a", "i", "n", ">">>, <<"<", "s", "e", "c", "t", "i", "o", "n", " ", "i", "d", "=", "\"", "h", "e", "r", "o", "\"", ">">>, <<"<", "S", "E", "C", "T", "I", "O", "N", " ", "c", "l", "a", "s", "s", "=", "\"", "c", "\"", " ", "I", "D", "=", "'", "h", "e", "r", "o", "'", ">">>,
  <<"<", "/", "s", "e", "c", "t", "i", "o", "n", ">">>
>>

\* <Button   variant="primary"   size={lg}   asChild   >Go   </Button>   id="b"
\* (each attribute with a space before it)
ButtonPieces == <<
  <<"<", "B", "u", "t", "t", "o", "n">>, <<" ", "v", "a", "r", "i", "a", "n", "t", "=", "\"", "p", "r", "i", "m", "a", "r", "y", "\"">>, <<" ", "s", "i", "z", "e", "=", "{", "l", "g", "}">>, <<" ", "a", "s", "C", "h", "i", "l", "d">>, <<">", "G", "o">>, <<"<", "/", "B", "u", "t", "t", "o", "n", ">">>, <<" ", "i", "d", "=", "\"", "b", "\"">>
>>

\* <Card className="   <Card id="k" class='   shadow-lg   (two spaces)rounded   ">   '>
CardPieces == <<
  <<"<", "C", "a", "r", "d", " ", "c", "l", "a", "s", "s", "N", "a", "m", "e", "=", "\"">>, <<"<", "C", "a", "r", "d", " ", "i", "d", "=", "\"", "k", "\"", " ", "c", "l", "a", "s", "s", "=", "'">>, <<"s", "h", "a", "d", "o", "w", "-", "l", "g">>, <<" ", " ", "r", "o", "u", "n", "d", "e", "d">>, <<"\"", ">">>, <<"'", ">">>
>>

\* <Image   src="a.png"   alt='Logo'   width={40}   className="z"   priority   />
\* (each attribute, and />, with a space before it)
ImagePieces == <<
  <<"<", "I", "m", "a", "g", "e">>, <<" ", "s", "r", "c", "=", "\"", "a", ".", "p", "n", "g", "\"">>, <<" ", "a", "l", "t", "=", "'", "L", "o", "g", "o", "'">>, <<" ", "w", "i", "d", "t", "h", "=", "{", "4", "0", "}">>, <<" ", "c", "l", "a", "s", "s", "N", "a", "m", "e", "=", "\"", "z", "\"">>, <<" ", "p", "r", "i", "o", "r", "i", "t", "y">>, <<" ", "/", ">">>
>>

\* <section id="hero">A</section>   <main>B</main>   x
CallPieces == <<
  <<"<", "s", "e", "c", "t", "i", "o", "n", " ", "i", "d", "=", "\"", "h", "e", "r", "o", "\"", ">", "A", "<", "/", "s", "e", "c", "t", "i", "o", "n", ">">>, <<"<", "m", "a", "i", "n", ">", "B", "<", "/", "m", "a", "i", "n", ">">>, <<"x">>
>>

\* <main   </main>   <Card   className={"a b"}   onClick={"go()"}   style={'x'}   >
\* (each attribute with a space before it)
JsxPieces == <<
  <<"<", "m", "a", "i", "n">>, <<"<", "/", "m", "a", "i", "n", ">">>, <<"<", "C", "a", "r", "d">>, <<" ", "c", "l", "a", "s", "s", "N", "a", "m", "e", "=", "{", "\"", "a", " ", "b", "\"", "}">>, <<" ", "o", "n", "C", "l", "i", "c", "k", "=", "{", "\"", "g", "o", "(", ")", "\"", "}">>, <<" ", "s", "t", "y", "l", "e", "=", "{", "'", "x", "'", "}">>, <<">">>
>>

\* <CardHeader>   </CardHeader>   <TabsTrigger value="a">   </TabsTrigger>   <Card footer={
\*   <Button>   }>
RulePieces == <<
  <<"<", "C", "a", "r", "d", "H", "e", "a", "d", "e", "r", ">">>, <<"<", "/", "C", "a", "r", "d", "H", "e", "a", "d", "e", "r", ">">>, <<"<", "T", "a", "b", "s", "T", "r", "i", "g", "g", "e", "r", " ", "v", "a", "l", "u", "e", "=", "\"", "a", "\"", ">">>, <<"<", "/", "T", "a", "b", "s", "T", "r", "i", "g", "g", "e", "r", ">">>, <<"<", "C", "a", "r", "d", " ", "f", "o", "o", "t", "e", "r", "=", "{">>,
  <<"<", "B", "u", "t", "t", "o", "n", ">">>, <<"}", ">">>
>>

\* a   <section id="hero">   <section>   </section>   <sectionx id="hero">
\*   <section data-id="hero">
HeroPieces == <<
  <<"a">>, <<"<", "s", "e", "c", "t", "i", "o", "n", " ", "i", "d", "=", "\"", "h", "e", "r", "o", "\"", ">">>, <<"<", "s", "e", "c", "t", "i", "o", "n", ">">>, <<"<", "/", "s", "e", "c", "t", "i", "o", "n", ">">>, <<"<", "s", "e", "c", "t", "i", "o", "n", "x", " ", "i", "d", "=", "\"", "h", "e", "r", "o", "\"", ">">>,
  <<"<", "s", "e", "c", "t", "i", "o", "n", " ", "d", "a", "t", "a", "-", "i", "d", "=", "\"", "h", "e", "r", "o", "\"", ">">>
>>

\* <Badge    id="a"    id='b'    class=""    className="k"   >
AttrPieces == <<
  <<"<", "B", "a", "d", "g", "e">>, <<" ", "i", "d", "=", "\"", "a", "\"">>, <<" ", "i", "d", "=", "'", "b", "'">>, <<" ", "c", "l", "a", "s", "s", "=", "\"", "\"">>, <<" ", "c", "l", "a", "s", "s", "N", "a", "m", "e", "=", "\"", "k", "\"">>, <<">">>
>>

\* <Badge    t='"'    u="<&"    v='&amp;'    w={"<}   >
EscapePieces == <<
  <<"<", "B", "a", "d", "g", "e">>, <<" ", "t", "=", "'", "\"", "'">>, <<" ", "u", "=", "\"", "<", "&", "\"">>, <<" ", "v", "=", "'", "&", "a", "m", "p", ";", "'">>, <<" ", "w", "=", "{", "\"", "<", "}">>, <<">">>
>>

Pieces(c) ==
  CASE c = "script" -> ScriptPieces
    [] c = "escape" -> EscapePieces
    [] c = "attrs" -> AttrPieces
    [] c = "hero" -> HeroPieces
    [] c = "rules" -> RulePieces
    [] c = "jsx" -> JsxPieces
    [] c = "calls" -> CallPieces
    [] c = "event" -> EventPieces
    [] c = "style" -> StylePieces
    [] c = "section" -> SectionPieces
    [] c = "button" -> ButtonPieces
    [] c = "card" -> CardPieces
    [] c = "image" -> ImagePieces

\* the most pieces a response of each corpus is assembled from
MaxScriptPieces == 4
MaxEventPieces == 4
MaxStylePieces == 4
MaxSectionPieces == 4
MaxButtonPieces == 4
MaxCardPieces == 4
MaxImagePieces == 4
MaxCallPieces == 2
MaxEscapePieces == 4
MaxAttrPieces == 4
MaxHeroPieces == 4
MaxRulePieces == 4
MaxJsxPieces == 4

\* the most calls of extractPrimarySection that are followed by another one
MaxCalls == 2

MaxPieces(c) ==
  CASE c = "script" -> MaxScriptPieces
    [] c = "escape" -> MaxEscapePieces
    [] c = "attrs" -> MaxAttrPieces
    [] c = "hero" -> MaxHeroPieces
    [] c = "rules" -> MaxRulePieces
    [] c = "jsx" -> MaxJsxPieces
    [] c = "calls" -> MaxCallPieces
    [] c = "event" -> MaxEventPieces
    [] c = "style" -> MaxStylePieces
    [] c = "section" -> MaxSectionPieces
    [] c = "button" -> MaxButtonPieces
    [] c = "card" -> MaxCardPieces
    [] c = "image" -> MaxImagePieces

\* ---------------------------------------------------------- the program

VARIABLES
  corpus,        \* the corpus the response is assembled from
  pieces,        \* the indices of the pieces assembled so far
  responseText,  \* their concatenation: the text of response.txt
  pc,            \* "compose", "extracted" or "resanitized"
  result,        \* the ExtractionResult of extractPrimarySection(responseText)
  resanitized,   \* sanitizeMarkup applied to result.sanitizedHtml
  lastIndex,     \* the lastIndex properties of the two module-level patterns
  calls,         \* the number of calls of extractPrimarySection completed before
  remembered,    \* one of those calls, if any: <<[input, output]>>
  now,           \* Date.now() of the viewer server, in milliseconds
  pairs,         \* state.pairs: pairId -> [left, right, createdAt]
  issuedAt,      \* the pairIds GET /api/pair has returned -> the time of the reply
  votes,         \* the rows of the votes table, in insertion order
  request,       \* the body of the request the server handled last
  reply,         \* the status and payload it answered with
  served,        \* the number of requests handled
  run,           \* the position of the POST /api/demo/run handler
  task,          \* selected model -> the position of its task in Promise.all
  stream,        \* what the handler did with reply.raw: the events written, "end"
  isGenerating,  \* the demo page: the isGenerating state
  models,        \* the demo page: label -> [status, text]
  modelOrder,    \* the demo page: the labels in the order of their model-start
  submissions,   \* the demo page: the number of submissions so far
  position,      \* submission -> how far handleSubmit has read its stream
  configLabel,   \* the label of a model in benchmark.config.json
  keyPc,         \* "config", "ran" (the demo run persisted it) or "refreshed"
  announced,     \* the variantKey of the model's SSE events
  variantIndex,  \* the keys of state.variantIndex
  benchModels,   \* run-benchmark: the sanitized labels of config.models, in order
  benchPc,       \* run-benchmark: "config", "loop", "complete" or "rejected"
  modelDirs,     \* run-benchmark: the model folders that exist under baseOutputDir
  outcomes       \* run-benchmark: per model invoked, "saved" or "error.log"

textVars == <<corpus, pieces, responseText, pc, result, resanitized, lastIndex, calls, remembered>>
serverVars == <<now, pairs, issuedAt, votes, request, reply, served>>
demoVars == <<run, task, stream>>
pageVars == <<isGenerating, models, modelOrder, submissions, position>>
keyVars == <<configLabel, keyPc, announced, variantIndex>>
benchVars == <<benchModels, benchPc, modelDirs, outcomes>>
vars == <<textVars, serverVars, demoVars, pageVars, keyVars, benchVars>>

notTextVars == <<serverVars, demoVars, pageVars, keyVars, benchVars>>
notServerVars == <<textVars, demoVars, pageVars, keyVars, benchVars>>
notDemoVars == <<textVars, serverVars, pageVars, keyVars, benchVars>>
notPageVars == <<textVars, serverVars, demoVars, keyVars, benchVars>>
notKeyVars == <<textVars, serverVars, demoVars, pageVars, benchVars>>
notBenchVars == <<textVars, serverVars, demoVars, pageVars, keyVars>>

\* a property the request body does not have
Missing == "undefined"

\* new Map()
EmptyMap == [k \in {} |-> k]

\* createServer: no pair registered, the votes table as initDatabase creates it
ServerInit ==
  /\ now = 0
  /\ pairs = EmptyMap
  /\ issuedAt = EmptyMap
  /\ votes = <<>>
  /\ request = [endpoint |-> "none", pairId |-> Missing, selection |-> Missing,
                leftVariantId |-> Missing, rightVariantId |-> Missing,
                winnerVariantId |-> Missing]
  /\ reply = [status |-> 0, error |-> ""]
  /\ served = 0

\* no POST /api/demo/run received yet
DemoInit ==
  /\ run = "idle"
  /\ task = EmptyMap
  /\ stream = <<>>

\* the demo page as it is mounted
PageInit ==
  /\ isGenerating = FALSE
  /\ models = EmptyMap
  /\ modelOrder = <<>>
  /\ submissions = 0
  /\ position = <<>>

\* a model of the configuration whose label is still to be written
KeyInit ==
  /\ configLabel = <<>>
  /\ keyPc = "config"
  /\ announced = <<>>
  /\ variantIndex = {}

\* run-benchmark before main is called: the configuration is being written
BenchInit ==
  /\ benchModels = <<>>
  /\ benchPc = "config"
  /\ modelDirs = {}
  /\ outcomes = <<>>

InitWith(c) ==
  /\ corpus = c
  /\ pieces = <<>>
  /\ responseText = <<>>
  /\ pc = "compose"
  /\ result = [sanitizedHtml |-> <<>>, rawSection |-> <<>>]
  /\ resanitized = <<>>
  /\ lastIndex = [hero |-> 0, main |-> 0]
  /\ calls = 0
  /\ remembered = <<>>
  /\ ServerInit
  /\ DemoInit
  /\ PageInit
  /\ KeyInit
  /\ BenchInit

\* the model's completion grows by one piece
AppendPiece ==
  /\ pc = "compose"
  /\ Len(pieces) < MaxPieces(corpus)
  /\ \E n \in 1..Len(Pieces(corpus)) :
       /\ pieces' = Append(pieces, n)
       /\ responseText' = responseText \o Pieces(corpus)[n]
  /\ UNCHANGED <<corpus, pc, result, resanitized, lastIndex, calls, remembered>>
  /\ UNCHANGED notTextVars

\* buildVariant: const extraction = extractPrimarySection(responseText)
Extract ==
  /\ pc = "compose"
  /\ result' = extractPrimarySection(responseText)
  /\ pc' = "extracted"
  /\ UNCHANGED <<corpus, pieces, responseText, resanitized, lastIndex, calls, remembered>>
  /\ UNCHANGED notTextVars

\* the sanitizer stage run once more, on the text it produced
Resanitize ==
  /\ pc = "extracted"
  /\ resanitized' = sanitizeMarkup(result.sanitizedHtml)
  /\ pc' = "resanitized"
  /\ UNCHANGED <<corpus, pieces, responseText, result, lastIndex, calls, remembered>>
  /\ UNCHANGED notTextVars

Next == AppendPiece \/ Extract \/ Resanitize

\* extractPrimarySection(responseText) with the pattern objects as the calls
\* before it left them
Call ==
  /\ pc = "compose"
  /\ \E out \in {extractPrimarySectionAt(responseText, lastIndex)} :
       /\ result' = out.result
       /\ lastIndex' = out.lastIndex
  /\ pc' = "extracted"
  /\ UNCHANGED <<corpus, pieces, responseText, resanitized, calls, remembered>>
  /\ UNCHANGED notTextVars

\* buildVariant returns and is called for the next variant folder, whose
\* response.txt is another text
NextVariant ==
  /\ pc = "extracted"
  /\ calls < MaxCalls
  /\ calls' = calls + 1
  /\ \/ remembered' = remembered
     \/ remembered = <<>> /\ remembered' = <<[input |-> responseText, output |-> result]>>
  /\ pieces' = <<>>
  /\ responseText' = <<>>
  /\ result' = [sanitizedHtml |-> <<>>, rawSection |-> <<>>]
  /\ pc' = "compose"
  /\ UNCHANGED <<corpus, resanitized, lastIndex>>
  /\ UNCHANGED notTextVars

NextCall == AppendPiece \/ Call \/ NextVariant

SpecScript == InitWith("script") /\ [][Next]_vars
SpecEvent == InitWith("event") /\ [][Next]_vars
SpecStyle == InitWith("style") /\ [][Next]_vars
SpecSection == InitWith("section") /\ [][Next]_vars
SpecButton == InitWith("button") /\ [][Next]_vars
SpecCard == InitWith("card") /\ [][Next]_vars
SpecImage == InitWith("image") /\ [][Next]_vars
SpecJsx == InitWith("jsx") /\ [][Next]_vars
SpecRule == InitWith("rules") /\ [][Next]_vars
SpecHero == InitWith("hero") /\ [][Next]_vars
SpecAttr == InitWith("attrs") /\ [][Next]_vars
SpecEscape == InitWith("escape") /\ [][Next]_vars
SpecCalls == InitWith("calls") /\ [][NextCall]_vars

\* ------------------------------------------------------- the viewer server

PAIR_LIFETIME_MS == 1800000

\* the time that passes in one step of the clock
ClockStep == PAIR_LIFETIME_MS \div 2

\* state.variants after refreshVariants: the variantKey of each variant
Variants == <<"v1", "v2">>

\* the values crypto.randomUUID() can return for a pairId
UUIDs == <<"p1", "p2", "p3", "p4">>

MaxPairs == 2
MaxRequests == 4
MaxTicks == 4

PairIds == {UUIDs[n] : n \in 1..MaxPairs}

\* a NULL column of the votes table
SqlNull == "NULL"

\* a list of accepted selections with one more entry
SelectionsAndUp == {"left", "right", "tie", "both_bad", "up"}

\* the selections POST /api/vote accepts
Selections == {"left", "right", "tie", "both_bad"}

\* POST /api/vote that leaves the pair registered
MapKeep(map, key) == map

\* a Map without the key
MapDelete(map, key) == [k \in DOMAIN map \ {key} |-> map[k]]

\* a Map with the key set
MapSet(map, key, value) ==
  [k \in DOMAIN map \cup {key} |-> IF k = key THEN value ELSE map[k]]

registerPair(registry, pairId, pair, t) ==
  MapSet(registry, pairId, [left |-> pair.left, right |-> pair.right, createdAt |-> t])

purgeExpiredPairs(registry, t) ==
  [k \in {p \in DOMAIN registry : ~(t - registry[p].createdAt > PAIR_LIFETIME_MS)}
     |-> registry[k]]

resolvePairSelection(pair, selection) ==
  CASE selection = "left" -> pair.left
    [] selection = "right" -> pair.right
    [] selection \in {"tie", "both_bad"} -> SqlNull
    [] OTHER -> SqlNull

\* recordVote: one more row, created_at defaulting to the time of the insert
recordVote(rows, vote, t) ==
  Append(rows, [pairId |-> vote.pairId,
                leftVariantId |-> vote.leftVariantId,
                rightVariantId |-> vote.rightVariantId,
                winnerVariantId |-> vote.winnerVariantId,
                selection |-> vote.selection,
                createdAt |-> t])

Body(endpoint, pairId, selection, left, right, winner) ==
  [endpoint |-> endpoint, pairId |-> pairId, selection |-> selection,
   leftVariantId |-> left, rightVariantId |-> right, winnerVariantId |-> winner]

\* one request handled: its body and the reply
Served(body, status, error) ==
  /\ request' = body
  /\ reply' = [status |-> status, error |-> error]
  /\ served' = served + 1

\* GET /api/pair
GetPair ==
  /\ served < MaxRequests
  /\ \E firstIndex, secondIndex \in 1..Len(Variants) :
     \E pairId \in PairIds \ DOMAIN issuedAt :
       /\ secondIndex # firstIndex
       /\ pairs' = registerPair(purgeExpiredPairs(pairs, now), pairId,
                                [left |-> Variants[firstIndex],
                                 right |-> Variants[secondIndex]], now)
       /\ issuedAt' = MapSet(issuedAt, pairId, now)
       /\ Served(Body("pair", pairId, Missing, Missing, Missing, Missing), 200, "")
  /\ UNCHANGED <<now, votes>>
  /\ UNCHANGED notServerVars

\* POST /api/vote with the body {pairId, selection}
PostVoteWith(pairId, selection) ==
  IF pairId = Missing \/ selection = Missing
  THEN /\ Served(Body("vote", pairId, selection, Missing, Missing, Missing),
                 400, "pairId and selection are required.")
       /\ UNCHANGED <<pairs, votes>>
  ELSE IF pairId \notin DOMAIN pairs
  THEN /\ Served(Body("vote", pairId, selection, Missing, Missing, Missing),
                 404, "Pair not found or expired.")
       /\ UNCHANGED <<pairs, votes>>
  ELSE IF selection \notin Selections
  THEN /\ Served(Body("vote", pairId, selection, Missing, Missing, Missing),
                 400, "Invalid selection option.")
       /\ UNCHANGED <<pairs, votes>>
  ELSE /\ votes' = recordVote(votes,
                              [pairId |-> pairId,
                               leftVariantId |-> pairs[pairId].left,
                               rightVariantId |-> pairs[pairId].right,
                               winnerVariantId |-> resolvePairSelection(pairs[pairId], selection),
                               selection |-> selection], now)
       /\ pairs' = MapDelete(pairs, pairId)
       /\ Served(Body("vote", pairId, selection, Missing, Missing, Missing), 200, "")

PostVote ==
  /\ served < MaxRequests
  /\ \E pairId \in PairIds \cup {Missing} :
     \E selection \in Selections \cup {"up", Missing} :
       PostVoteWith(pairId, selection)
  /\ UNCHANGED <<now, issuedAt>>
  /\ UNCHANGED notServerVars

\* POST /api/demo/vote with the body {leftVariantId, rightVariantId,
\* winnerVariantId, selection}
PostDemoVoteWith(leftVariantId, rightVariantId, winnerVariantId, selection) ==
  IF Missing \in {leftVariantId, rightVariantId, winnerVariantId, selection}
  THEN /\ Served(Body("demo/vote", Missing, selection, leftVariantId, rightVariantId, winnerVariantId),
                 400, "leftVariantId, rightVariantId, winnerVariantId, and selection are required")
       /\ UNCHANGED votes
  ELSE IF selection \notin {"left", "right"}
  THEN /\ Served(Body("demo/vote", Missing, selection, leftVariantId, rightVariantId, winnerVariantId),
                 400, "selection must be 'left' or 'right'")
       /\ UNCHANGED votes
  ELSE IF winnerVariantId \notin {leftVariantId, rightVariantId}
  THEN /\ Served(Body("demo/vote", Missing, selection, leftVariantId, rightVariantId, winnerVariantId),
                 400, "winnerVariantId must match leftVariantId or rightVariantId")
       /\ UNCHANGED votes
  ELSE IF leftVariantId = rightVariantId
  THEN /\ Served(Body("demo/vote", Missing, selection, leftVariantId, rightVariantId, winnerVariantId),
                 400, "leftVariantId and rightVariantId must differ")
       /\ UNCHANGED votes
  ELSE /\ votes' = recordVote(votes,
                              [pairId |-> "demo-" \o ToString(Len(votes) + 1),
                               leftVariantId |-> leftVariantId,
                               rightVariantId |-> rightVariantId,
                               winnerVariantId |-> winnerVariantId,
                               selection |-> selection], now)
       /\ Served(Body("demo/vote", Missing, selection, leftVariantId, rightVariantId, winnerVariantId), 200, "")

PostDemoVote ==
  /\ served < MaxRequests
  /\ \E leftVariantId, rightVariantId, winnerVariantId \in {Variants[n] : n \in 1..Len(Variants)} \cup {Missing} :
     \E selection \in {"left", "right", "tie", Missing} :
       PostDemoVoteWith(leftVariantId, rightVariantId, winnerVariantId, selection)
  /\ UNCHANGED <<now, pairs, issuedAt>>
  /\ UNCHANGED notServerVars

\* time passes on the server
Tick ==
  /\ now < MaxTicks * ClockStep
  /\ now' = now + ClockStep
  /\ UNCHANGED <<pairs, issuedAt, votes, request, reply, served>>
  /\ UNCHANGED notServerVars

NextVote == GetPair \/ PostVote \/ Tick

NextVotes == GetPair \/ PostVote \/ PostDemoVote

\* the blind-comparison endpoints, with time passing
SpecVote == InitWith("none") /\ [][NextVote]_vars

\* the two endpoints that record votes
SpecVotes == InitWith("none") /\ [][NextVotes]_vars

Spec == SpecSection

\* ------------------------------------------------------- POST /api/demo/run

DEMO_MODEL_COUNT == 2

\* config.models of benchmark.config.json
ConfiguredModels == {"m1", "m2", "m3"}

MaxChunks == 2

\* reply.raw.write of one event; model is Missing for the events of the run
Event(event, model) == [event |-> event, model |-> model]

sendEvent(out, event, model) == Append(out, Event(event, model))

\* reply.raw.end()
End(out) == Append(out, Event("end", Missing))

\* the chunk events written for a model
ChunksOf(out, model) ==
  Cardinality({n \in 1..Len(out) : out[n] = Event("chunk", model)})

\* model-start of every task, in the order of selectedModels: each async
\* callback of selectedModels.map runs up to its first await
RECURSIVE StartAll(_, _)
StartAll(out, selectedModels) ==
  IF selectedModels = <<>> THEN out
  ELSE StartAll(sendEvent(out, "model-start", Head(selectedModels)), Tail(selectedModels))

\* the request arrives; the handler runs up to await Promise.all(...): it
\* sends run-start and starts one task for each selected model
RunStart ==
  /\ run = "idle"
  /\ \E first, second \in ConfiguredModels :
       /\ first # second
       /\ \E selectedModels \in {<<first>>, <<first, second>>} :
            /\ Len(selectedModels) <= DEMO_MODEL_COUNT
            /\ stream' = StartAll(sendEvent(stream, "run-start", Missing), selectedModels)
            /\ task' = [m \in {selectedModels[n] : n \in 1..Len(selectedModels)} |-> "calling"]
  /\ run' = "awaiting"
  /\ UNCHANGED notDemoVars

\* loadConfig, readFile, mkdir or writeFile rejects, or no model is
\* configured: the catch of the handler sends error and ends the response
SetupFails ==
  /\ run = "idle"
  /\ stream' = End(sendEvent(stream, "error", Missing))
  /\ run' = "ended"
  /\ UNCHANGED task
  /\ UNCHANGED notDemoVars

\* callModel calls onChunk
Chunk(m) ==
  /\ m \in DOMAIN task
  /\ task[m] = "calling"
  /\ ChunksOf(stream, m) < MaxChunks
  /\ stream' = sendEvent(stream, "chunk", m)
  /\ UNCHANGED <<run, task>>
  /\ UNCHANGED notDemoVars

\* callModel resolves: await persistResult(...)
CallResolves(m) ==
  /\ m \in DOMAIN task
  /\ task[m] = "calling"
  /\ task' = [task EXCEPT ![m] = "persisting"]
  /\ UNCHANGED <<run, stream>>
  /\ UNCHANGED notDemoVars

\* callModel or persistResult rejects: the catch of the task starts writing
\* error.log
TaskCatches(m) ==
  /\ m \in DOMAIN task
  /\ task[m] \in {"calling", "persisting"}
  /\ task' = [task EXCEPT ![m] = "logging"]
  /\ UNCHANGED <<run, stream>>
  /\ UNCHANGED notDemoVars

\* persistResult resolves: model-complete, the task is fulfilled
Persisted(m) ==
  /\ m \in DOMAIN task
  /\ task[m] = "persisting"
  /\ stream' = sendEvent(stream, "model-complete", m)
  /\ task' = [task EXCEPT ![m] = "fulfilled"]
  /\ UNCHANGED run
  /\ UNCHANGED notDemoVars

\* error.log is written: model-error, the task is fulfilled
ErrorLogged(m) ==
  /\ m \in DOMAIN task
  /\ task[m] = "logging"
  /\ stream' = sendEvent(stream, "model-error", m)
  /\ task' = [task EXCEPT ![m] = "fulfilled"]
  /\ UNCHANGED run
  /\ UNCHANGED notDemoVars

\* fs.mkdir or fs.writeFile of error.log rejects inside the catch: the task
\* is rejected
ErrorLogFails(m) ==
  /\ m \in DOMAIN task
  /\ task[m] = "logging"
  /\ task' = [task EXCEPT ![m] = "rejected"]
  /\ UNCHANGED <<run, stream>>
  /\ UNCHANGED notDemoVars

\* Promise.all is fulfilled: await refreshVariants(...)
AllFulfilled ==
  /\ run = "awaiting"
  /\ \A m \in DOMAIN task : task[m] = "fulfilled"
  /\ run' = "refreshing"
  /\ UNCHANGED <<task, stream>>
  /\ UNCHANGED notDemoVars

\* Promise.all is rejected as soon as one task is: the catch of the handler
\* sends error and ends the response
OneRejected ==
  /\ run = "awaiting"
  /\ \E m \in DOMAIN task : task[m] = "rejected"
  /\ stream' = End(sendEvent(stream, "error", Missing))
  /\ run' = "ended"
  /\ UNCHANGED task
  /\ UNCHANGED notDemoVars

\* refreshVariants resolves: run-complete, reply.raw.end()
RunCompletes ==
  /\ run = "refreshing"
  /\ stream' = End(sendEvent(stream, "run-complete", Missing))
  /\ run' = "ended"
  /\ UNCHANGED task
  /\ UNCHANGED notDemoVars

\* refreshVariants rejects: error, reply.raw.end()
RefreshFails ==
  /\ run = "refreshing"
  /\ stream' = End(sendEvent(stream, "error", Missing))
  /\ run' = "ended"
  /\ UNCHANGED task
  /\ UNCHANGED notDemoVars

NextDemo ==
  \/ RunStart
  \/ SetupFails
  \/ \E m \in ConfiguredModels : Chunk(m)
  \/ \E m \in ConfiguredModels : CallResolves(m)
  \/ \E m \in ConfiguredModels : TaskCatches(m)
  \/ \E m \in ConfiguredModels : Persisted(m)
  \/ \E m \in ConfiguredModels : ErrorLogged(m)
  \/ \E m \in ConfiguredModels : ErrorLogFails(m)
  \/ AllFulfilled
  \/ OneRejected
  \/ RunCompletes
  \/ RefreshFails

\* one demo run
SpecDemo == InitWith("none") /\ [][NextDemo]_vars

\* ------------------------------------------------------------ the demo page

MaxSubmissions == 2

\* the events a stream delivers for the label "m1", in the order the server
\* sends them; the last one is model-complete or model-error
StreamLength == 3

EventAt(n, terminal) ==
  CASE n = 1 -> "model-start"
    [] n = 2 -> "chunk"
    [] n = 3 -> terminal

\* the reset of the page state in handleSubmit and in the onClick handlers
\* of New Comparison and Try Another, which all clear the models
ClearModels ==
  /\ models' = EmptyMap
  /\ modelOrder' = <<>>

\* handleSubmit up to the await of fetch
Submit ==
  /\ ~isGenerating
  /\ submissions < MaxSubmissions
  /\ isGenerating' = TRUE
  /\ ClearModels
  /\ submissions' = submissions + 1
  /\ position' = Append(position, 0)
  /\ UNCHANGED notPageVars

\* handleSSEEvent(event, data) with data.label = label, as a function of
\* the models map
applyEvent(prev, event, label) ==
  CASE event = "model-start" ->
         MapSet(prev, label, [status |-> "generating", text |-> <<>>])
    [] event = "chunk" ->
         IF label \notin DOMAIN prev THEN prev
         ELSE MapSet(prev, label, [prev[label] EXCEPT !.text = Append(@, "chunk")])
    [] event = "model-complete" ->
         IF label \notin DOMAIN prev THEN prev
         ELSE MapSet(prev, label, [prev[label] EXCEPT !.status = "complete"])
    [] event = "model-error" ->
         IF label \notin DOMAIN prev THEN prev
         ELSE MapSet(prev, label, [prev[label] EXCEPT !.status = "error"])
    [] OTHER -> prev

\* the reader loop of submission s reads one event and handles it
ReadEvent(s) ==
  /\ s \in 1..submissions
  /\ position[s] < StreamLength
  /\ \E terminal \in {"model-complete", "model-error"} :
     \E event \in {EventAt(position[s] + 1, terminal)} :
       /\ models' = applyEvent(models, event, "m1")
       /\ modelOrder' = IF event = "model-start" /\ \A n \in 1..Len(modelOrder) : modelOrder[n] # "m1"
                         THEN Append(modelOrder, "m1")
                         ELSE modelOrder
  /\ position' = [position EXCEPT ![s] = @ + 1]
  /\ UNCHANGED <<isGenerating, submissions>>
  /\ UNCHANGED notPageVars

\* the reader of submission s reports done: break, then the finally block
StreamDone(s) ==
  /\ s \in 1..submissions
  /\ position[s] = StreamLength
  /\ position' = [position EXCEPT ![s] = StreamLength + 1]
  /\ isGenerating' = FALSE
  /\ UNCHANGED <<models, modelOrder, submissions>>
  /\ UNCHANGED notPageVars

\* the onClick of New Comparison or Try Another, shown while a comparison
\* is generating or on the page
NewComparison ==
  /\ isGenerating \/ modelOrder # <<>>
  /\ ClearModels
  /\ isGenerating' = FALSE
  /\ UNCHANGED <<submissions, position>>
  /\ UNCHANGED notPageVars

NextPage ==
  \/ Submit
  \/ \E s \in 1..MaxSubmissions : ReadEvent(s)
  \/ \E s \in 1..MaxSubmissions : StreamDone(s)
  \/ NewComparison

\* the demo page and the streams of its submissions
SpecPage == InitWith("none") /\ [][NextPage]_vars

\* ------------------------------------------------------------ variant keys

\* the characters a configured label is written with
LabelChars == {"G", "p", "4", "-", " "}

MaxLabelLen == 3

\* label.replace(/-+/g, "-")
CollapseDashes(s) ==
  With({i \in 1..Len(s) : ~(s[i] = "-" /\ At(s, i - 1) = "-")}, LAMBDA keep :
  With(Ascending(keep), LAMBDA order :
  [n \in 1..Len(order) |-> s[order[n]]]))

\* label.replace(/^-|-$/g, "")
StripDashes(s) ==
  With(IF At(s, 1) = "-" THEN Tail(s) ELSE s, LAMBDA headless :
  IF At(headless, Len(headless)) = "-"
  THEN SubSeq(headless, 1, Len(headless) - 1)
  ELSE headless)

sanitizeLabel(label) ==
  With([i \in 1..Len(label) |-> ToLower(label[i])], LAMBDA lower :
  With([i \in 1..Len(lower) |->
          IF lower[i] \in LowerSet \cup DigitSet \cup {"-", "_"} THEN lower[i] ELSE "-"],
       LAMBDA dashed :
  StripDashes(CollapseDashes(dashed))))

\* the first 12 hex digits of the SHA-1 of the composite: equal for equal
\* composites, and taken to differ for different ones
Sha1Prefix(composite) == [sha1 |-> composite]

\* the key runFolderName/label-hash, kept as its three parts
computeVariantKey(runFolderName, provider, model, label) ==
  [runFolderName |-> runFolderName,
   label |-> label,
   hash |-> Sha1Prefix(runFolderName \o <<":">> \o provider \o <<":">> \o model \o <<":">> \o label)]

\* getVariantKey of the run loader; metadata.label is the configured label
getVariantKey(runFolderName, metadata, variantPath) ==
  With(sanitizeLabel(metadata.label), LAMBDA label :
  [runFolderName |-> runFolderName,
   label |-> label,
   hash |-> Sha1Prefix(runFolderName \o <<":">> \o metadata.provider \o <<":">> \o metadata.model \o <<":">> \o label)])

\* parseVariantKey applied to a key of the run loader
parseVariantKey(variantKey) ==
  [runFolderName |-> variantKey.runFolderName,
   label |-> variantKey.label,
   hash |-> variantKey.hash]

\* the keys refreshVariants sets in state.variantIndex for one variant
IndexKeys(variant) ==
  With(parseVariantKey(variant.variantKey), LAMBDA parsed :
  With(sanitizeLabel(variant.metadata.label), LAMBDA normalizedLabel :
  IF normalizedLabel = parsed.label THEN {variant.variantKey}
  ELSE {variant.variantKey,
        computeVariantKey(parsed.runFolderName, variant.metadata.provider,
                          variant.metadata.model, normalizedLabel)}))

\* the run folder and the model of the demo run
RunFolder == <<"r">>
ModelConfig == [provider |-> <<"o">>, model |-> <<"g">>]

\* the configured label grows by one character
TypeLabel ==
  /\ keyPc = "config"
  /\ Len(configLabel) < MaxLabelLen
  /\ \E c \in LabelChars : configLabel' = Append(configLabel, c)
  /\ UNCHANGED <<keyPc, announced, variantIndex>>
  /\ UNCHANGED notKeyVars

\* POST /api/demo/run for the model: the variantKey of its events
AnnounceKey ==
  /\ keyPc = "config"
  /\ configLabel # <<>>
  /\ announced' = computeVariantKey(RunFolder, ModelConfig.provider, ModelConfig.model, configLabel)
  /\ keyPc' = "ran"
  /\ UNCHANGED <<configLabel, variantIndex>>
  /\ UNCHANGED notKeyVars

\* refreshVariants after persistResult: loadVariants finds the variant in
\* the folder RunFolder/sanitizeLabel(label), if that names a folder
RefreshVariants ==
  /\ keyPc = "ran"
  /\ \E metadata \in {[provider |-> ModelConfig.provider, model |-> ModelConfig.model,
                         label |-> configLabel]} :
     \E variantPath \in {sanitizeLabel(configLabel)} :
       variantIndex' =
         IF variantPath = <<>> THEN {}
         ELSE IndexKeys([variantKey |-> getVariantKey(RunFolder, metadata, variantPath),
                         metadata |-> metadata])
  /\ keyPc' = "refreshed"
  /\ UNCHANGED <<configLabel, announced>>
  /\ UNCHANGED notKeyVars

NextKey == TypeLabel \/ AnnounceKey \/ RefreshVariants

\* the variantKey of one model, announced and then loaded
SpecKey == InitWith("none") /\ [][NextKey]_vars

\* ---------------------------------------------------------- run-benchmark

\* the sanitized labels the configured models can have
BenchLabels == {"a", "b", "c"}

MaxModels == 4

\* the index of the model the for loop is at: one outcome per pass made
BenchIndex == Len(outcomes) + 1

\* one more model in config.models
AddModel ==
  /\ benchPc = "config"
  /\ Len(benchModels) < MaxModels
  /\ \E label \in BenchLabels : benchModels' = Append(benchModels, label)
  /\ UNCHANGED <<benchPc, modelDirs, outcomes>>
  /\ UNCHANGED notBenchVars

\* main up to the for loop: baseOutputDir, prompt.md and meta.json written
StartBenchmark ==
  /\ benchPc = "config"
  /\ benchPc' = "loop"
  /\ UNCHANGED <<benchModels, modelDirs, outcomes>>
  /\ UNCHANGED notBenchVars

\* one pass of the loop in which callModel resolves: persistResult makes
\* the model folder and writes the three files
ModelSaved ==
  /\ benchPc = "loop"
  /\ BenchIndex <= Len(benchModels)
  /\ modelDirs' = modelDirs \cup {benchModels[BenchIndex]}
  /\ outcomes' = Append(outcomes, "saved")
  /\ UNCHANGED <<benchModels, benchPc>>
  /\ UNCHANGED notBenchVars

\* one pass of the loop in which callModel rejects: the catch writes
\* error.log into the model folder; fs.writeFile rejects with ENOENT when
\* the folder does not exist, and with it the promise of main
ModelFails ==
  /\ benchPc = "loop"
  /\ BenchIndex <= Len(benchModels)
  /\ IF benchModels[BenchIndex] \in modelDirs
     THEN /\ outcomes' = Append(outcomes, "error.log")
          /\ benchPc' = benchPc
     ELSE /\ outcomes' = outcomes
          /\ benchPc' = "rejected"
  /\ UNCHANGED <<benchModels, modelDirs>>
  /\ UNCHANGED notBenchVars

\* the loop is over: console.log("Run complete. ...")
RunComplete ==
  /\ benchPc = "loop"
  /\ BenchIndex = Len(benchModels) + 1
  /\ benchPc' = "complete"
  /\ UNCHANGED <<benchModels, modelDirs, outcomes>>
  /\ UNCHANGED notBenchVars

NextBench == AddModel \/ StartBenchmark \/ ModelSaved \/ ModelFails \/ RunComplete

\* one run of run-benchmark
SpecBench == InitWith("none") /\ [][NextBench]_vars

\* ------------------------------------------------------------ the properties

\* lit occurs somewhere in s, compared case-insensitively
ContainsCI(s, lit) == \E i \in 1..Len(s) : StartsAtCI(s, i, lit)

\* s holds a script element: an opening tag <script ...> and a later </script>
HasScriptElement(s) ==
  \E i \in 1..Len(s) :
    /\ StartsAtCI(s, i, <<"<", "s", "c", "r", "i", "p", "t">>)
    /\ IsSpace(At(s, i + 7)) \/ At(s, i + 7) = ">"
    /\ \E g \in (i + 7)..Len(s) : s[g] = ">" /\ IndexOfCI(s, g + 1, <<"<", "/", "s", "c", "r", "i", "p", "t", ">">>) # 0

\* C1: whenever the response holds a script element, the sanitizedHtml that
\* extractPrimarySection returns holds no "<script", in any letter case.
C1_NoScriptLeft ==
  (pc # "compose" /\ HasScriptElement(responseText))
    => ~ContainsCI(result.sanitizedHtml, <<"<", "s", "c", "r", "i", "p", "t">>)

\* an attribute on<name>= stands at index i of s, after a character that
\* cannot belong to an attribute name
EventAttrAt(s, i) ==
  /\ i > 1
  /\ ~IsNameChar(s[i - 1])
  /\ StartsAtCI(s, i, <<"o", "n">>)
  /\ IsLetter(At(s, i + 2))
  /\ At(s, SkipLetters(s, i + 2)) = "="

\* ... and its value is double-quoted, single-quoted or a brace expression
EventAttrValuedAt(s, i) ==
  /\ EventAttrAt(s, i)
  /\ \/ Delimited(s, SkipLetters(s, i + 2) + 1, "\"", "\"") # 0
     \/ Delimited(s, SkipLetters(s, i + 2) + 1, "'", "'") # 0
     \/ Delimited(s, SkipLetters(s, i + 2) + 1, "{", "}") # 0

\* C2: whenever the response holds an event-handler attribute on<name>= with a
\* double-quoted, single-quoted or brace value, whatever character stands
\* before it, sanitizedHtml holds no attribute on<name>=.
C2_NoEventAttrLeft ==
  (pc # "compose" /\ \E i \in 1..Len(responseText) : EventAttrValuedAt(responseText, i))
    => ~\E i \in 1..Len(result.sanitizedHtml) : EventAttrAt(result.sanitizedHtml, i)

\* a style attribute with a double-quoted, single-quoted or brace value
HasStyleAttr(s) ==
  \E i \in 1..Len(s) :
    /\ StartsAtCI(s, i, <<"s", "t", "y", "l", "e", "=">>)
    /\ \/ Delimited(s, i + 6, "\"", "\"") # 0
       \/ Delimited(s, i + 6, "'", "'") # 0
       \/ Delimited(s, i + 6, "{", "}") # 0

\* C3: whenever the response holds a literal style attribute in one of the
\* three value forms, sanitizedHtml holds no "style=": no removal pass leaves
\* or assembles one.
C3_NoStyleAttrLeft ==
  (pc # "compose" /\ HasStyleAttr(responseText))
    => ~ContainsCI(result.sanitizedHtml, <<"s", "t", "y", "l", "e", "=">>)

\* C4: the sanitizer stage is idempotent: applied to the text it produced, it
\* gives that text back.
C4_SanitizeIdempotent ==
  pc = "resanitized" => resanitized = result.sanitizedHtml

\* s is empty or holds only whitespace
IsBlank(s) == \A i \in 1..Len(s) : IsSpace(s[i])

\* C5: for the empty string and for every whitespace-only response,
\* extractPrimarySection returns sanitizedHtml = "" and rawSection = "".
C5_BlankGivesEmpty ==
  (pc # "compose" /\ IsBlank(responseText))
    => result = [sanitizedHtml |-> <<>>, rawSection |-> <<>>]

\* an opening tag <section ... id="hero" ...> (either quote) stands at index
\* i of s and a </section> follows it
HeroSectionAt(s, i) ==
  /\ StartsAtCI(s, i, <<"<", "s", "e", "c", "t", "i", "o", "n">>)
  /\ \E j \in (i + 8)..Len(s) :
       /\ \A k \in (i + 8)..(j - 1) : s[k] # ">"
       /\ StartsAtCI(s, j, <<"i", "d", "=", "\"", "h", "e", "r", "o", "\"">>) \/ StartsAtCI(s, j, <<"i", "d", "=", "'", "h", "e", "r", "o", "'">>)
       /\ \E k \in (j + 9)..Len(s) : StartsAtCI(s, k, <<"<", "/", "s", "e", "c", "t", "i", "o", "n", ">">>)

HasHeroSection(s) == \E i \in 1..Len(s) : HeroSectionAt(s, i)

\* a <main ...> and a later </main>
HasMainElement(s) ==
  \E i \in 1..Len(s) :
    StartsAtCI(s, i, <<"<", "m", "a", "i", "n">>) /\ \E k \in (i + 5)..Len(s) : StartsAtCI(s, k, <<"<", "/", "m", "a", "i", "n", ">">>)

\* sub occurs in s as a contiguous substring
IsSubstring(sub, s) ==
  \E i \in 1..(Len(s) + 1) : i + Len(sub) - 1 <= Len(s) /\ SubSeq(s, i, i + Len(sub) - 1) = sub

\* C6: whenever the response holds a section with id hero, rawSection is that
\* hero section (from its opening tag to a </section>) and never the <main>
\* match, whatever the order or nesting of <main> and the hero section.
C6_HeroBeforeMain ==
  (pc # "compose" /\ HasHeroSection(responseText))
    => /\ HeroSectionAt(result.rawSection, 1)
       /\ StartsAtCI(result.rawSection, Len(result.rawSection) - 9, <<"<", "/", "s", "e", "c", "t", "i", "o", "n", ">">>)
       /\ IsSubstring(result.rawSection, responseText)

C6_Witness ==
  /\ pc = "extracted"
  /\ responseText = <<"<", "m", "a", "i", "n", ">", "<", "/", "m", "a", "i", "n", ">", "<", "s", "e", "c", "t", "i", "o", "n", " ", "i", "d", "=", "\"", "h", "e", "r", "o", "\"", ">", "<", "/", "s", "e", "c", "t", "i", "o", "n", ">">>
  /\ result.rawSection = <<"<", "s", "e", "c", "t", "i", "o", "n", " ", "i", "d", "=", "\"", "h", "e", "r", "o", "\"", ">", "<", "/", "s", "e", "c", "t", "i", "o", "n", ">">>

\* C7: whenever the response holds neither a hero section nor a <main>
\* element and is not whitespace-only, rawSection is the response with its
\* leading and trailing whitespace removed.
C7_FallbackIsTrimmed ==
  (/\ pc # "compose"
   /\ ~HasHeroSection(responseText)
   /\ ~HasMainElement(responseText)
   /\ ~IsBlank(responseText))
    => /\ result.rawSection # <<>>
       /\ ~IsSpace(Head(result.rawSection))
       /\ ~IsSpace(result.rawSection[Len(result.rawSection)])
       /\ \E a, b \in 0..Len(responseText) :
            /\ a + b + Len(result.rawSection) = Len(responseText)
            /\ \A k \in 1..a : IsSpace(responseText[k])
            /\ \A k \in 1..b : IsSpace(responseText[Len(responseText) + 1 - k])
            /\ SubSeq(responseText, a + 1, Len(responseText) - b) = result.rawSection

C7_Witness ==
  /\ pc = "extracted"
  /\ responseText = <<" ", "B", " ">>
  /\ result.rawSection = <<"B">>

\* the pieces from index n on are whole elements: an opening piece, then
\* pieces of the set attrs, then (when body is not 0) a body piece, each
\* element ended by the closing piece
RECURSIVE WholeElements(_, _, _, _, _, _, _)
WholeElements(p, n, at, opening, attrs, body, closing) ==
  IF n > Len(p) THEN at = "out"
  ELSE CASE at = "out" -> p[n] = opening
                            /\ WholeElements(p, n + 1, "attrs", opening, attrs, body, closing)
         [] at = "attrs" ->
              \/ p[n] \in attrs
                   /\ WholeElements(p, n + 1, "attrs", opening, attrs, body, closing)
              \/ body # 0 /\ p[n] = body
                   /\ WholeElements(p, n + 1, "body", opening, attrs, body, closing)
              \/ body = 0 /\ p[n] = closing
                   /\ WholeElements(p, n + 1, "out", opening, attrs, body, closing)
         [] at = "body" -> p[n] = closing
                             /\ WholeElements(p, n + 1, "out", opening, attrs, body, closing)

\* text repeated once for every occurrence of the piece mark in p
RECURSIVE Repeated(_, _, _)
Repeated(text, p, mark) ==
  IF p = <<>> THEN <<>>
  ELSE (IF Head(p) = mark THEN text ELSE <<>>) \o Repeated(text, Tail(p), mark)

\* C8: a response made of <Button ...>Go</Button> elements whose attributes
\* are all in the strip list (variant, size, asChild) comes out as one
\* <button class="arena-btn">Go</button> per element: none of the stripped
\* attributes, the body unchanged, the closing tag rewritten.
C8_ButtonRewritten ==
  (/\ pc # "compose"
   /\ corpus = "button"
   /\ pieces # <<>>
   /\ WholeElements(pieces, 1, "out", 1, {2, 3, 4}, 5, 6))
    => result.sanitizedHtml = Repeated(<<"<", "b", "u", "t", "t", "o", "n", " ", "c", "l", "a", "s", "s", "=", "\"", "a", "r", "e", "n", "a", "-", "b", "t", "n", "\"", ">", "G", "o", "<", "/", "b", "u", "t", "t", "o", "n", ">">>, pieces, 6)

C8_Witness ==
  /\ pc = "extracted"
  /\ responseText = <<"<", "B", "u", "t", "t", "o", "n", " ", "v", "a", "r", "i", "a", "n", "t", "=", "\"", "p", "r", "i", "m", "a", "r", "y", "\"", ">", "G", "o", "<", "/", "B", "u", "t", "t", "o", "n", ">">>
  /\ result.sanitizedHtml = <<"<", "b", "u", "t", "t", "o", "n", " ", "c", "l", "a", "s", "s", "=", "\"", "a", "r", "e", "n", "a", "-", "b", "t", "n", "\"", ">", "G", "o", "<", "/", "b", "u", "t", "t", "o", "n", ">">>

\* the whitespace-separated class tokens written by the pieces of p
RECURSIVE CardTokens(_, _, _)
CardTokens(p, n, open) ==
  IF n > Len(p) \/ p[n] \notin {3, 4} THEN (IF open = <<>> THEN <<>> ELSE <<open>>)
  ELSE IF p[n] = 3 THEN CardTokens(p, n + 1, open \o <<"s", "h", "a", "d", "o", "w", "-", "l", "g">>)
  ELSE (IF open = <<>> THEN <<>> ELSE <<open>>) \o CardTokens(p, n + 1, <<"r", "o", "u", "n", "d", "e", "d">>)

RECURSIVE SpaceJoined(_)
SpaceJoined(tokens) ==
  IF tokens = <<>> THEN <<>> ELSE <<" ">> \o Head(tokens) \o SpaceJoined(Tail(tokens))

\* one <Card> opening tag with a className (or class) of one or more tokens
IsCardTag(p) ==
  /\ Len(p) >= 3
  /\ <<p[1], p[Len(p)]>> \in {<<1, 5>>, <<2, 6>>}
  /\ \A n \in 2..(Len(p) - 1) : p[n] \in {3, 4}

\* C9: a <Card> opening tag whose className or class holds one or more
\* whitespace-separated tokens comes out as a <div> opening tag whose single
\* class attribute is arena-card followed by those tokens in source order,
\* separated by single spaces; the other attributes follow it.
C9_CardClassesFlattened ==
  (pc # "compose" /\ corpus = "card" /\ IsCardTag(pieces))
    => result.sanitizedHtml =
         <<"<", "d", "i", "v", " ", "c", "l", "a", "s", "s", "=", "\"", "a", "r", "e", "n", "a", "-", "c", "a", "r", "d">> \o SpaceJoined(CardTokens(pieces, 2, <<>>)) \o <<"\"">>
           \o (IF pieces[1] = 2 THEN <<" ", "i", "d", "=", "\"", "k", "\"">> ELSE <<>>) \o <<">">>

C9_Witness ==
  /\ pc = "extracted"
  /\ responseText = <<"<", "C", "a", "r", "d", " ", "c", "l", "a", "s", "s", "N", "a", "m", "e", "=", "\"", "s", "h", "a", "d", "o", "w", "-", "l", "g", " ", " ", "r", "o", "u", "n", "d", "e", "d", "\"", ">">>
  /\ result.sanitizedHtml = <<"<", "d", "i", "v", " ", "c", "l", "a", "s", "s", "=", "\"", "a", "r", "e", "n", "a", "-", "c", "a", "r", "d", " ", "s", "h", "a", "d", "o", "w", "-", "l", "g", " ", "r", "o", "u", "n", "d", "e", "d", "\"", ">">>

\* what the attribute pieces of <Image ... /> elements leave behind: src, alt
\* and width, each where it first stands in its element, double-quoted
RECURSIVE ImageMarkup(_, _, _)
ImageMarkup(p, n, seen) ==
  IF n > Len(p) THEN <<>>
  ELSE CASE p[n] = 1 -> <<"<", "d", "i", "v", " ", "c", "l", "a", "s", "s", "=", "\"", "a", "r", "e", "n", "a", "-", "i", "m", "a", "g", "e", "\"">> \o ImageMarkup(p, n + 1, {})
         [] p[n] = 7 -> <<">", "<", "/", "d", "i", "v", ">">> \o ImageMarkup(p, n + 1, {})
         [] p[n] = 2 /\ 2 \notin seen -> <<" ", "s", "r", "c", "=", "\"", "a", ".", "p", "n", "g", "\"">> \o ImageMarkup(p, n + 1, seen \cup {2})
         [] p[n] = 3 /\ 3 \notin seen -> <<" ", "a", "l", "t", "=", "\"", "L", "o", "g", "o", "\"">> \o ImageMarkup(p, n + 1, seen \cup {3})
         [] p[n] = 4 /\ 4 \notin seen -> <<" ", "w", "i", "d", "t", "h", "=", "\"", "4", "0", "\"">> \o ImageMarkup(p, n + 1, seen \cup {4})
         [] OTHER -> ImageMarkup(p, n + 1, seen)

\* C10: a response made of self-closing <Image ... /> elements comes out as
\* one <div class="arena-image" ...></div> per element, carrying of the
\* source attributes only src, alt, width and height (class and every other
\* attribute dropped), with an explicit closing tag and never self-closed.
C10_ImageRewritten ==
  (/\ pc # "compose"
   /\ corpus = "image"
   /\ pieces # <<>>
   /\ WholeElements(pieces, 1, "out", 1, {2, 3, 4, 5, 6}, 0, 7))
    => result.sanitizedHtml = ImageMarkup(pieces, 1, {})

C10_Witness ==
  /\ pc = "extracted"
  /\ responseText = <<"<", "I", "m", "a", "g", "e", " ", "c", "l", "a", "s", "s", "N", "a", "m", "e", "=", "\"", "z", "\"", " ", "a", "l", "t", "=", "'", "L", "o", "g", "o", "'", " ", "/", ">">>
  /\ result.sanitizedHtml = <<"<", "d", "i", "v", " ", "c", "l", "a", "s", "s", "=", "\"", "a", "r", "e", "n", "a", "-", "i", "m", "a", "g", "e", "\"", " ", "a", "l", "t", "=", "\"", "L", "o", "g", "o", "\"", ">", "<", "/", "d", "i", "v", ">">>

\* C11: a call of extractPrimarySection returns what the function of its
\* input alone gives, the same as an earlier call with the same input
\* returned, whatever calls ran before it or between the two; and no call
\* leaves a lastIndex on the module-level patterns.
C11_CallsIndependent ==
  /\ lastIndex = [hero |-> 0, main |-> 0]
  /\ pc = "extracted" => result = extractPrimarySection(responseText)
  /\ (pc = "extracted" /\ remembered # <<>> /\ remembered[1].input = responseText)
       => result = remembered[1].output

C11_Witness ==
  /\ pc = "extracted"
  /\ calls = 2
  /\ remembered # <<>>
  /\ remembered[1].input = responseText
  /\ responseText = <<"x", "<", "s", "e", "c", "t", "i", "o", "n", " ", "i", "d", "=", "\"", "h", "e", "r", "o", "\"", ">", "A", "<", "/", "s", "e", "c", "t", "i", "o", "n", ">">>
  /\ result = remembered[1].output
  /\ result.rawSection = <<"<", "s", "e", "c", "t", "i", "o", "n", " ", "i", "d", "=", "\"", "h", "e", "r", "o", "\"", ">", "A", "<", "/", "s", "e", "c", "t", "i", "o", "n", ">">>

\* s ends with the literal lit, compared case-insensitively
EndsWithCI(s, lit) == StartsAtCI(s, Len(s) - Len(lit) + 1, lit)

\* C12: rawSection is a contiguous substring of the response, exactly as it
\* was selected (the whole response, the response trimmed, a <main ...
\* </main> match or a <section ... </section> match): no normalization
\* stage has touched it, only sanitizedHtml carries their effect.
C12_RawSectionUntouched ==
  pc # "compose"
    => /\ IsSubstring(result.rawSection, responseText)
       /\ \/ result.rawSection = responseText
          \/ result.rawSection = Trim(responseText)
          \/ StartsAtCI(result.rawSection, 1, <<"<", "m", "a", "i", "n">>) /\ EndsWithCI(result.rawSection, <<"<", "/", "m", "a", "i", "n", ">">>)
          \/ StartsAtCI(result.rawSection, 1, <<"<", "s", "e", "c", "t", "i", "o", "n">>)
               /\ EndsWithCI(result.rawSection, <<"<", "/", "s", "e", "c", "t", "i", "o", "n", ">">>)

C12_Witness ==
  /\ pc = "extracted"
  /\ responseText = <<"<", "m", "a", "i", "n", " ", "c", "l", "a", "s", "s", "N", "a", "m", "e", "=", "{", "\"", "a", " ", "b", "\"", "}", "<", "/", "m", "a", "i", "n", ">", ">">>
  /\ result.rawSection = <<"<", "m", "a", "i", "n", " ", "c", "l", "a", "s", "s", "N", "a", "m", "e", "=", "{", "\"", "a", " ", "b", "\"", "}", "<", "/", "m", "a", "i", "n", ">">>
  /\ result.sanitizedHtml = <<"<", "m", "a", "i", "n", " ", "c", "l", "a", "s", "s", "=", "a", " ", "b", "<", "/", "m", "a", "i", "n", ">">>

\* a brace-wrapped string literal {"..."}, {'...'} or {<backtick>...<backtick>}
\* with a non-empty text stands at index p of s
BraceStringAt(s, p) ==
  /\ At(s, p) = "{"
  /\ \E q \in {"\"", "'", Backtick} :
       /\ Delimited(s, p + 1, q, q) > p + 3
       /\ At(s, Delimited(s, p + 1, q, q)) = "}"

\* index i of s lies inside an opening tag: a "<" and a letter stand before
\* it with no ">" in between
InTagAt(s, i) ==
  \E o \in 1..(i - 1) :
    s[o] = "<" /\ IsLetter(At(s, o + 1)) /\ \A k \in o..i : s[k] # ">"

\* C13: whenever an opening tag of the response holds an attribute on<name>= or style= whose
\* value is a brace-wrapped string literal, which stage 4.2 inlines,
\* sanitizedHtml holds no attribute on<name>= and no style=.
C13_InlinedAttrsRemoved ==
  (/\ pc # "compose"
   /\ \E i \in 1..Len(result.rawSection) :
        /\ InTagAt(result.rawSection, i)
        /\ \/ EventAttrAt(result.rawSection, i)
                /\ BraceStringAt(result.rawSection, SkipLetters(result.rawSection, i + 2) + 1)
           \/ StartsAtCI(result.rawSection, i, <<"s", "t", "y", "l", "e", "=">>) /\ BraceStringAt(result.rawSection, i + 6))
    => /\ ~\E i \in 1..Len(result.sanitizedHtml) : EventAttrAt(result.sanitizedHtml, i)
       /\ ~ContainsCI(result.sanitizedHtml, <<"s", "t", "y", "l", "e", "=">>)

\* C16: a class list written as className={"a b"} comes out as the literal
\* quoted attribute class="a b" on a plain tag, and on a recognized component
\* with its tokens after the base class.
C16_ClassListQuoted ==
  pc # "compose"
    => /\ IsSubstring(<<"<", "m", "a", "i", "n", " ", "c", "l", "a", "s", "s", "N", "a", "m", "e", "=", "{", "\"", "a", " ", "b", "\"", "}", ">">>, result.rawSection)
            => IsSubstring(<<"<", "m", "a", "i", "n", " ", "c", "l", "a", "s", "s", "=", "\"", "a", " ", "b", "\"", ">">>, result.sanitizedHtml)
       /\ IsSubstring(<<"<", "C", "a", "r", "d", " ", "c", "l", "a", "s", "s", "N", "a", "m", "e", "=", "{", "\"", "a", " ", "b", "\"", "}", ">">>, result.rawSection)
            => IsSubstring(<<"<", "d", "i", "v", " ", "c", "l", "a", "s", "s", "=", "\"", "a", "r", "e", "n", "a", "-", "c", "a", "r", "d", " ", "a", " ", "b", "\"", ">">>, result.sanitizedHtml)

\* what the catalog prescribes for a response made of whole tags whose names
\* are catalog names
RECURSIVE CatalogMarkup(_)
CatalogMarkup(p) ==
  IF p = <<>> THEN <<>>
  ELSE (CASE Head(p) = 1 -> <<"<", "d", "i", "v", " ", "c", "l", "a", "s", "s", "=", "\"", "a", "r", "e", "n", "a", "-", "c", "a", "r", "d", "_", "_", "h", "e", "a", "d", "e", "r", "\"", ">">>
          [] Head(p) = 2 -> <<"<", "/", "d", "i", "v", ">">>
          [] Head(p) = 3 -> <<"<", "b", "u", "t", "t", "o", "n", " ", "c", "l", "a", "s", "s", "=", "\"", "a", "r", "e", "n", "a", "-", "t", "a", "b", "s", "_", "_", "t", "r", "i", "g", "g", "e", "r", "\"", ">">>
          [] Head(p) = 4 -> <<"<", "/", "b", "u", "t", "t", "o", "n", ">">>)
         \o CatalogMarkup(Tail(p))

\* C14: every opening tag whose name is a catalog sourceName is rewritten by
\* that name's rule and no other: <CardHeader> comes out as
\* <div class="arena-card__header">, <TabsTrigger value="a"> as
\* <button class="arena-tabs__trigger">, and each closing tag as the closing
\* tag of the same target.
C14_CatalogConformance ==
  (/\ pc # "compose"
   /\ corpus = "rules"
   /\ pieces # <<>>
   /\ \A n \in 1..Len(pieces) : pieces[n] \in 1..4)
    => result.sanitizedHtml = CatalogMarkup(pieces)

\* C15: every opening tag that a rule of the Component Rewriter emits is
\* still there, unchanged, after the rules that follow it: no later rule
\* matches any part of it.
C15_EmittedTextKept ==
  pc # "compose"
    => \E bound \in {convertClassBindings(stripJsxArtifacts(result.rawSection))} :
         \E converted \in {ApplyFirst(bound, Len(ComponentRules))} :
           \A n \in 1..Len(ComponentRules) :
             \A tag \in EmittedBy(bound, n) : IsSubstring(tag, converted)

\* an opening tag at index i whose tag name is section
SectionOpenAt(s, i) ==
  StartsAtCI(s, i, <<"<", "s", "e", "c", "t", "i", "o", "n">>) /\ At(s, i + 8) \in {" ", ">"}

\* the exclusive end of the </section> that closes the section element
\* opened at index i (depth 0 there), counting nested section elements;
\* 0 when that element is never closed
RECURSIVE CloseOf(_, _, _)
CloseOf(s, i, depth) ==
  IF i > Len(s) THEN 0
  ELSE IF SectionOpenAt(s, i) THEN CloseOf(s, i + 1, depth + 1)
  ELSE IF StartsAtCI(s, i, <<"<", "/", "s", "e", "c", "t", "i", "o", "n", ">">>)
       THEN (IF depth = 1 THEN i + 10 ELSE CloseOf(s, i + 10, depth - 1))
  ELSE CloseOf(s, i + 1, depth)

\* an opening tag at index i whose tag name is section and whose own id
\* attribute, in single or double quotes, is hero
GenuineHeroTagAt(s, i) ==
  /\ SectionOpenAt(s, i)
  /\ \E j \in (i + 9)..Len(s) :
       /\ \A k \in (i + 8)..(j - 1) : s[k] # ">"
       /\ At(s, j - 1) = " "
       /\ StartsAtCI(s, j, <<"i", "d", "=", "\"", "h", "e", "r", "o", "\"">>) \/ StartsAtCI(s, j, <<"i", "d", "=", "'", "h", "e", "r", "o", "'">>)

\* C17: when the first hero match starts at a <section id="hero"> tag whose
\* element is closed, rawSection is that whole element, from the opening tag
\* to the </section> that closes it, nested section elements included.
C17_WholeHeroElement ==
  pc # "compose"
    => \A i \in 1..Len(responseText) :
         (/\ HeroSectionEnd(responseText, i) # 0
          /\ \A k \in 1..(i - 1) : HeroSectionEnd(responseText, k) = 0
          /\ GenuineHeroTagAt(responseText, i)
          /\ CloseOf(responseText, i, 0) # 0)
           => result.rawSection
                = SubSeq(responseText, i, CloseOf(responseText, i, 0) - 1)

\* C18: a response that holds no <main and no opening tag named section
\* with an id attribute of its own equal to hero does not take the hero
\* branch: rawSection is the whole trimmed response.
C18_HeroNeedsSectionId ==
  (/\ pc # "compose"
   /\ ~ContainsCI(responseText, <<"<", "m", "a", "i", "n">>)
   /\ \A i \in 1..Len(responseText) : ~GenuineHeroTagAt(responseText, i))
    => result.rawSection = Trim(responseText)

\* the response is one <Badge ...> opening tag: <Badge, attributes, >
OneBadgeTag ==
  /\ corpus = "attrs"
  /\ Len(pieces) >= 2
  /\ pieces[1] = 1
  /\ pieces[Len(pieces)] = 6
  /\ \A n \in 2..(Len(pieces) - 1) : pieces[n] \in 2..5

\* the value of the piece that writes an id attribute
IdValue(p) == IF p = 2 THEN <<"a">> ELSE <<"b">>

\* how many times sub occurs in s
Occurrences(sub, s) ==
  Cardinality({i \in 1..(Len(s) - Len(sub) + 1) : SubSeq(s, i, i + Len(sub) - 1) = sub})

\* C19: when a tag's attribute list holds the id attribute more than once,
\* the parsed attribute map holds id once, with the value of the first
\* occurrence from the left, and that is the id the emitted tag carries.
C19_FirstOccurrenceWins ==
  (/\ pc # "compose"
   /\ OneBadgeTag
   /\ Cardinality({n \in 1..Len(pieces) : pieces[n] \in {2, 3}}) > 1)
    => \E first \in {IdValue(pieces[Min({n \in 1..Len(pieces) : pieces[n] \in {2, 3}})])} :
       \E bound \in {convertClassBindings(stripJsxArtifacts(result.rawSection))} :
       \E parsed \in {parseAttributes(SubSeq(bound, 7, Len(bound) - 1))} :
         /\ Cardinality({n \in 1..Len(parsed) : parsed[n].key = <<"i", "d">>}) = 1
         /\ Get(parsed, <<"i", "d">>) = first
         /\ IsSubstring(<<" ", "i", "d", "=", "\"">> \o first \o <<"\"">>, result.sanitizedHtml)

\* C20: the tag emitted for one <Badge ...> opening tag carries exactly one
\* class attribute, whatever class or className value the source tag has,
\* the empty string included.
C20_OneClassAttribute ==
  (pc # "compose" /\ OneBadgeTag)
    => Occurrences(<<" ", "c", "l", "a", "s", "s", "=">>, result.sanitizedHtml) = 1

\* the response is one <Badge ...> opening tag of the escape corpus
OneEscapeTag ==
  /\ corpus = "escape"
  /\ Len(pieces) >= 2
  /\ pieces[1] = 1
  /\ pieces[Len(pieces)] = 6
  /\ \A n \in 2..(Len(pieces) - 1) : pieces[n] \in 2..5

\* the name="value" pair expected for an attribute piece: the source value
\* with & as &amp;, " as &quot; and < as &lt;
EscapedPair(p) ==
  CASE p = 2 -> <<" ", "t", "=", "\"", "&", "q", "u", "o", "t", ";", "\"">>
    [] p = 3 -> <<" ", "u", "=", "\"", "&", "l", "t", ";", "&", "a", "m", "p", ";", "\"">>
    [] p = 4 -> <<" ", "v", "=", "\"", "&", "a", "m", "p", ";", "a", "m", "p", ";", "\"">>
    [] p = 5 -> <<" ", "w", "=", "\"", "&", "q", "u", "o", "t", ";", "&", "l", "t", ";", "\"">>

\* the expected pairs of the attribute pieces p[n..], a repeated piece
\* giving one pair at the place of its first occurrence
RECURSIVE EscapedPairs(_, _)
EscapedPairs(p, n) ==
  IF n >= Len(p) THEN <<>>
  ELSE (IF \E k \in 2..(n - 1) : p[k] = p[n] THEN <<>> ELSE EscapedPair(p[n]))
         \o EscapedPairs(p, n + 1)

\* C21: every attribute value the Component Rewriter re-emits is escaped:
\* the emitted tag holds one '<', one '>' and only the double quotes that
\* delimit its values, and every source value appears with & as &amp;,
\* " as &quot; and < as &lt;.
C21_ValuesEscaped ==
  (pc # "compose" /\ OneEscapeTag)
    => /\ result.sanitizedHtml
            = <<"<", "s", "p", "a", "n", " ", "c", "l", "a", "s", "s", "=", "\"", "a", "r", "e", "n", "a", "-", "b", "a", "d", "g", "e", "\"">> \o EscapedPairs(pieces, 2) \o <<">">>
       /\ Occurrences(<<"<">>, result.sanitizedHtml) = 1
       /\ Occurrences(<<">">>, result.sanitizedHtml) = 1
       /\ Occurrences(<<"\"">>, result.sanitizedHtml)
            = 2 + 2 * Cardinality({pieces[n] : n \in 2..(Len(pieces) - 1)})

C21_Witness ==
  /\ pc = "extracted"
  /\ responseText = <<"<", "B", "a", "d", "g", "e", " ", "t", "=", "'", "\"", "'", " ", "u", "=", "\"", "<", "&", "\"", ">">>
  /\ result.sanitizedHtml = <<"<", "s", "p", "a", "n", " ", "c", "l", "a", "s", "s", "=", "\"", "a", "r", "e", "n", "a", "-", "b", "a", "d", "g", "e", "\"", " ", "t", "=", "\"", "&", "q", "u", "o", "t", ";", "\"", " ", "u", "=", "\"", "&", "l", "t", ";", "&", "a", "m", "p", ";", "\"", ">">>

\* the vote rows recorded for pairId p
RowsOf(p) == {n \in 1..Len(votes) : votes[n].pairId = p}

\* the step handles a POST /api/vote whose body has the pairId p and a
\* selection
VotesFor(p) ==
  /\ served' = served + 1
  /\ request'.endpoint = "vote"
  /\ request'.pairId = p
  /\ request'.selection # Missing

\* C22: a pair is single-use. Once a vote row exists for a pairId, the pair
\* is gone from the registry, every later vote for that pairId is answered
\* 404 and records nothing, and no pairId ever has more than one row.
C22_PairSingleUse ==
  [][\A p \in PairIds :
       /\ Cardinality(RowsOf(p))' <= 1
       /\ (RowsOf(p) # {}) => p \notin DOMAIN pairs
       /\ (RowsOf(p) # {} /\ VotesFor(p))
            => /\ reply'.status = 404
               /\ votes' = votes
               /\ pairs' = pairs]_vars

C22_Witness ==
  /\ request.endpoint = "vote"
  /\ request.pairId = "p1"
  /\ request.selection = "right"
  /\ reply.status = 404
  /\ Len(votes) = 1
  /\ votes[1].pairId = "p1"
  /\ votes[1].selection = "left"
  /\ "p1" \notin DOMAIN pairs

\* C23: a POST /api/vote that arrives more than PAIR_LIFETIME_MS after its
\* pair was issued is answered 404 "Pair not found or expired." and records
\* no vote, whatever requests were handled in between.
C23_PairExpires ==
  [][\A p \in DOMAIN issuedAt :
       (VotesFor(p) /\ now - issuedAt[p] > PAIR_LIFETIME_MS)
         => /\ reply'.status = 404
            /\ reply'.error = "Pair not found or expired."
            /\ votes' = votes]_vars

\* C24: in every vote row, winnerVariantId is leftVariantId when selection
\* is left, rightVariantId when it is right, and NULL when it is tie or
\* both_bad.
C24_WinnerMatchesSelection ==
  \A n \in 1..Len(votes) :
    /\ votes[n].selection = "left" => votes[n].winnerVariantId = votes[n].leftVariantId
    /\ votes[n].selection = "right" => votes[n].winnerVariantId = votes[n].rightVariantId
    /\ votes[n].selection \in {"tie", "both_bad"} => votes[n].winnerVariantId = SqlNull

\* C25: a POST /api/vote whose body lacks pairId or selection, names a pair
\* that is not registered, or has a selection other than left, right, tie
\* and both_bad is answered with an error, records no vote and leaves the
\* pair registry as it was.
C25_RejectedVoteChangesNothing ==
  [][(/\ served' = served + 1
      /\ request'.endpoint = "vote"
      /\ \/ request'.pairId = Missing
         \/ request'.selection = Missing
         \/ request'.pairId \notin DOMAIN pairs
         \/ request'.selection \notin {"left", "right", "tie", "both_bad"})
       => /\ reply'.status \in {400, 404}
          /\ votes' = votes
          /\ pairs' = pairs]_vars

C25_Witness ==
  /\ request.endpoint = "vote"
  /\ request.pairId = "p1"
  /\ request.selection = "up"
  /\ reply = [status |-> 400, error |-> "Invalid selection option."]
  /\ "p1" \in DOMAIN pairs
  /\ votes = <<>>

\* C26: no SSE event is written to the response after reply.raw.end(), in
\* every interleaving of the model tasks.
C26_NoWriteAfterEnd ==
  \A n \in 1..Len(stream) : stream[n].event = "end" => n = Len(stream)

\* the indices of the terminal events (model-complete, model-error) of m
TerminalsOf(m) ==
  {n \in 1..Len(stream) : stream[n] \in {Event("model-complete", m), Event("model-error", m)}}

\* the order of the events of a run: run-start before every model event;
\* model-start of a model before its chunks; no chunk after its terminal
\* event; at most one terminal event; run-complete after the terminal event
\* of every selected model
EventsInOrder ==
  /\ \A n \in 1..Len(stream) :
       stream[n].model # Missing => \E k \in 1..(n - 1) : stream[k].event = "run-start"
  /\ \A m \in DOMAIN task :
       /\ \A n \in 1..Len(stream) :
            stream[n] = Event("chunk", m)
              => /\ \E k \in 1..(n - 1) : stream[k] = Event("model-start", m)
                 /\ \A k \in TerminalsOf(m) : n < k
       /\ \A k \in TerminalsOf(m) :
            \E s \in 1..(k - 1) : stream[s] = Event("model-start", m)
       /\ Cardinality(TerminalsOf(m)) <= 1
  /\ \A n \in 1..Len(stream) :
       stream[n].event = "run-complete"
         => \A m \in DOMAIN task : \E k \in TerminalsOf(m) : k < n

\* C27: the events of a demo run are in order, and once the response has
\* been ended every selected model has sent its model-start and exactly one
\* terminal event.
C27_EventOrder ==
  /\ EventsInOrder
  /\ run = "ended"
       => \A m \in DOMAIN task : Cardinality(TerminalsOf(m)) = 1

\* C28: a step of the stream of an earlier submission (an event it delivers,
\* or its completion) leaves the models map, the model order and the
\* isGenerating flag shown for the latest submission unchanged.
C28_OldStreamChangesNothing ==
  [][\A s \in 1..submissions :
       (s < submissions /\ position'[s] # position[s])
         => UNCHANGED <<models, modelOrder, isGenerating>>]_vars

\* C29: once the run is persisted and the variants are refreshed, the
\* variantKey announced in the model's SSE events is a key of
\* state.variantIndex, for every configured label that names a variant folder.
C29_AnnouncedKeyResolves ==
  (keyPc = "refreshed" /\ sanitizeLabel(configLabel) # <<>>)
    => announced \in variantIndex

\* C30: the failure of one model's invocation is isolated: main is never
\* rejected by it, and at 'Run complete' every configured model has been
\* invoked and has either its saved output or its error.log.
C30_FailureIsolated ==
  /\ benchPc # "rejected"
  /\ benchPc = "complete" => Len(outcomes) = Len(benchModels)

====
